---- MODULE Spec2Model ----
(***************************************************************************)
(* Versioned-asset storage and validation of the dandi archive API.        *)
(*                                                                         *)
(* The request handlers of NestedAssetViewSet (views/asset.py) run under   *)
(* Django's autocommit: every ORM statement commits on its own, except the *)
(* statements inside an explicit transaction.atomic() block.  A handler is *)
(* therefore a short process whose steps are its commits; several clients  *)
(* run handlers concurrently.                                              *)
(***************************************************************************)
EXTENDS Integers, Sequences, FiniteSets, TLC

(***************************************************************************)
(* Bounds of the model.                                                    *)
(***************************************************************************)
MaxModified == 3

(***************************************************************************)
(* Fixed universe: one dandiset with its draft version and one published   *)
(* version, a second dandiset that owns a zarr archive, and a few uploaded *)
(* contents.                                                               *)
(***************************************************************************)
NoneV == "None"

Draft == "draft"
Published == "0.210831.2033"
Versions == {Draft, Published}

ThisDandiset == "000001"
OtherDandiset == "000002"

Clients == {1, 2}

\* AssetBlob rows, EmbargoedAssetBlob rows and ZarrArchive rows, by their uuid.
AssetBlobIds == {"B1", "B2"}
EmbargoedBlobIds == {"E1"}
ZarrIds == {"Z1", "Z2"}
UnknownId == "X9"

BlobSize(b) == CASE b = "B1" -> 100
                 [] b = "B2" -> 50
                 [] b = "E1" -> 30
                 [] OTHER -> 0

ZarrSize(z) == CASE z = "Z1" -> 20
                 [] z = "Z2" -> 10
                 [] OTHER -> 0

ZarrDandiset(z) == IF z = "Z2" THEN OtherDandiset ELSE ThisDandiset

VersionDandiset(v) == ThisDandiset

\* A path is the sequence of its '/'-separated segments.
PathA == <<"sub", "a.nwb">>
PathB == <<"sub", "b.nwb">>
PathC == <<"c.nwb">>
PathEmpty == <<>>
PathDotDot == <<"..", "a.nwb">>
PathEmptySegment == <<"sub", "", "a.nwb">>

Status == {"Pending", "Valid", "Invalid"}

VARIABLES
    assets,      \* table Asset: sequence of rows, the id of a row is its index
    live,        \* relation Version.assets: version -> set of Asset ids
    pathIndex,   \* table AssetPath: version -> directory nodes and leaves
    versions,    \* table Version: version -> status, errors, metadata, modified
    sha256,      \* blob id -> TRUE when AssetBlob.sha256 has been computed
    zarr,        \* zarr id -> status and whether the checksum is set
    pc,          \* client -> position of its request handler
    loc,         \* client -> local variables of its request handler
    resp,        \* client -> HTTP status of the response
    queue,       \* the celery queue: sequence of task messages
    sweep,       \* position of the periodic asset sweep
    agg,         \* the running aggregate_assets_summary_task
    validations, \* table Validation: sequence of rows
    storage,     \* the object keys that exist in the upload storage
    uploadResp,  \* the response of the last upload-validate request
    zarrArchive, \* a ZarrArchive under upload: files, file_count, size, lock
    reg,         \* uploader -> local variables of its file registration
    listing,     \* the response of the last paths request
    vsweep       \* position of the periodic version sweep

vars == <<assets, live, pathIndex, versions, sha256, zarr, pc, loc, resp, queue,
          sweep, agg, validations, storage, uploadResp, zarrArchive, reg, listing,
          vsweep>>

(***************************************************************************)
(* Rows and request payloads.                                              *)
(***************************************************************************)
SchemaVersion == "0.6.0"

\* The JSON metadata of an asset, reduced to the keys the handlers and the
\* validator read.  computed: the document carries content-derived keys
\* (digest, contentSize), which Asset.strip_metadata removes.
Metadata(hasPath, path, schemaVersion, encodingFormat, computed) ==
    [hasPath |-> hasPath, path |-> path, schemaVersion |-> schemaVersion,
     encodingFormat |-> encodingFormat, computed |-> computed]

NoErrors == <<>>

Error(field, message) == [field |-> field, message |-> message]

\* An Asset row.  blob, embargoed_blob and zarr are the three nullable
\* foreign keys; previous is the id of the replaced row, 0 for none.
Asset(path, blob, embargoed_blob, zarr_archive, metadata) ==
    [path |-> path, blob |-> blob, embargoed_blob |-> embargoed_blob,
     zarr |-> zarr_archive, metadata |-> metadata, status |-> "Pending",
     validation_errors |-> NoErrors, previous |-> 0, asset_id |-> 0]

NoAsset == Asset(<<>>, NoneV, NoneV, NoneV,
                 Metadata(FALSE, <<>>, NoneV, FALSE, FALSE))

AssetIds == 1..Len(assets)

is_blob(a) == a.blob # NoneV
is_embargoed_blob(a) == a.embargoed_blob # NoneV
is_zarr(a) == a.zarr # NoneV

AssetSize(a) == IF is_blob(a) THEN BlobSize(a.blob)
                ELSE IF is_embargoed_blob(a) THEN BlobSize(a.embargoed_blob)
                ELSE ZarrSize(a.zarr)

\* A request body: blob_id and zarr_id are NoneV when the key is absent.
Request(metadata, blob_id, zarr_id) ==
    [metadata |-> metadata, blob_id |-> blob_id, zarr_id |-> zarr_id]

(***************************************************************************)
(* AssetRequestSerializer.validate and asset_from_request.                 *)
(***************************************************************************)
\* Asset.ASSET_PATH_REGEX: no empty segment, no "." or ".." segment.
PathMatches(path) ==
    /\ Len(path) > 0
    /\ \A i \in 1..Len(path) : path[i] \notin {"", ".", ".."}

\* Mutant: the serializer accepts any combination of blob_id and zarr_id.
SerializerValidate_NoRefCheck(data) ==
    IF ~data.metadata.hasPath \/ data.metadata.path = <<>> THEN "NoPath"
    ELSE IF ~PathMatches(data.metadata.path) THEN "InvalidPath"
    ELSE "OK"

\* Mutant: the serializer does not match the path against the pattern.
SerializerValidate_NoPathCheck(data) ==
    IF (data.blob_id # NoneV) = (data.zarr_id # NoneV) THEN "ContentRefConflict"
    ELSE IF ~data.metadata.hasPath \/ data.metadata.path = <<>> THEN "NoPath"
    ELSE "OK"

\* "OK", or the name of the ValidationError the serializer raises.
SerializerValidate(data) ==
    IF (data.blob_id # NoneV) = (data.zarr_id # NoneV) THEN "ContentRefConflict"
    ELSE IF ~data.metadata.hasPath \/ data.metadata.path = <<>> THEN "NoPath"
    ELSE IF ~PathMatches(data.metadata.path) THEN "InvalidPath"
    ELSE "OK"

\* data['metadata'].setdefault('schemaVersion', settings.DANDI_SCHEMA_VERSION)
SetDefaultSchemaVersion(metadata) ==
    IF metadata.schemaVersion = NoneV
    THEN [metadata EXCEPT !.schemaVersion = SchemaVersion]
    ELSE metadata

\* Asset.strip_metadata: drops the computed keys of the document, the
\* content-derived ones (digest, contentSize) and 'path', which the row
\* keeps in its own column.
strip_metadata(metadata) ==
    [metadata EXCEPT !.computed = FALSE, !.hasPath = FALSE, !.path = <<>>]

\* The content lookups of asset_from_request: TRUE when get_object_or_404
\* raises Http404.
ContentNotFound(data) ==
    IF data.blob_id # NoneV
    THEN data.blob_id \notin AssetBlobIds /\ data.blob_id \notin EmbargoedBlobIds
    ELSE data.zarr_id \notin ZarrIds

\* The unsaved Asset asset_from_request returns for a request that passed
\* the serializer and whose content exists.
asset_from_request(data) ==
    LET validated == SetDefaultSchemaVersion(data.metadata)
        asset_blob == IF data.blob_id \in AssetBlobIds THEN data.blob_id ELSE NoneV
        embargoed_asset_blob ==
            IF data.blob_id # NoneV /\ data.blob_id \notin AssetBlobIds
            THEN data.blob_id ELSE NoneV
        zarr_archive == IF data.blob_id = NoneV THEN data.zarr_id ELSE NoneV
    IN Asset(validated.path, asset_blob, embargoed_asset_blob, zarr_archive,
             strip_metadata(validated))

(***************************************************************************)
(* Path index (services.asset: add_asset, delete_asset, update_asset).     *)
(* A directory node per proper prefix of a path, carrying the number and   *)
(* the total size of the files below it; one leaf per attached asset.      *)
(***************************************************************************)
Dirs == {<<>>, <<"sub">>}

ProperPrefixes(path) == {SubSeq(path, 1, k) : k \in 0..(Len(path) - 1)}

EmptyIndex ==
    [nodes |-> [d \in Dirs |-> [files |-> 0, size |-> 0]], leaves |-> {}]

add_asset(index, id, a) ==
    [nodes |-> [d \in Dirs |->
                  IF d \in ProperPrefixes(a.path)
                  THEN [files |-> index.nodes[d].files + 1,
                        size |-> index.nodes[d].size + AssetSize(a)]
                  ELSE index.nodes[d]],
     leaves |-> index.leaves \cup {id}]

delete_asset(index, id, a) ==
    [nodes |-> [d \in Dirs |->
                  IF d \in ProperPrefixes(a.path)
                  THEN [files |-> index.nodes[d].files - 1,
                        size |-> index.nodes[d].size - AssetSize(a)]
                  ELSE index.nodes[d]],
     leaves |-> index.leaves \ {id}]

update_asset(index, oldId, old, newId, new) ==
    add_asset(delete_asset(index, oldId, old), newId, new)

(***************************************************************************)
(* Metadata validation (tasks.validate_asset_metadata and                  *)
(* tasks.validate_version_metadata, as exercised by tests/test_tasks.py).  *)
(***************************************************************************)
AllowedSchemaVersions == {SchemaVersion}

\* TRUE when the content-derived digest of the asset is available.
DigestReady(a) ==
    IF is_blob(a) THEN sha256[a.blob]
    ELSE IF is_embargoed_blob(a) THEN sha256[a.embargoed_blob]
    ELSE zarr[a.zarr].checksum

\* The error for a schemaVersion that is not allowed: the message names the
\* version found, None when the key is missing (test_tasks.py 91, 106, 179,
\* 197 pin this beginning of the message).
VersionNotAllowed(schemaVersion) ==
    Error("", "Metadata version " \o schemaVersion \o " is not allowed.")

\* Mutant: the validator does not look at the digest.
AssetSchemaErrors_NoDigest(metadata, digestReady) ==
    IF metadata.schemaVersion \notin AllowedSchemaVersions
    THEN << VersionNotAllowed(metadata.schemaVersion) >>
    ELSE IF metadata.encodingFormat THEN <<>>
    ELSE << Error("encodingFormat", "field required") >>

\* The ordered violations the schema validator reports for an asset.
AssetSchemaErrors(metadata, digestReady) ==
    IF metadata.schemaVersion \notin AllowedSchemaVersions
    THEN << VersionNotAllowed(metadata.schemaVersion) >>
    ELSE (IF metadata.encodingFormat THEN <<>>
          ELSE << Error("encodingFormat", "field required") >>)
         \o
         (IF digestReady THEN <<>>
          ELSE << Error("digest", "Digest is missing dandi-etag or sha256 keys.") >>)

\* Mutant: the status is recorded but the list of violations is not.
validate_asset_metadata_ErrorsDropped(id) ==
    LET a == assets[id]
        errors == AssetSchemaErrors(a.metadata, DigestReady(a))
    IN [assets EXCEPT ![id] =
          [a EXCEPT !.status = IF errors = NoErrors THEN "Valid" ELSE "Invalid"]]

\* Mutant: the violations found are added to the list already recorded.
validate_asset_metadata_Appends(id) ==
    LET a == assets[id]
        errors == AssetSchemaErrors(a.metadata, DigestReady(a))
    IN [assets EXCEPT ![id] =
          [a EXCEPT !.status = IF errors = NoErrors THEN "Valid" ELSE "Invalid",
                    !.validation_errors = a.validation_errors \o errors]]

\* The row of asset id after validate_asset_metadata(id).
validate_asset_metadata(id) ==
    LET a == assets[id]
        errors == AssetSchemaErrors(a.metadata, DigestReady(a))
    IN [assets EXCEPT ![id] =
          [a EXCEPT !.status = IF errors = NoErrors THEN "Valid" ELSE "Invalid",
                    !.validation_errors = errors]]

\* Mutant: the inline validation does not wait for the blob's checksum.
maybe_validate_asset_metadata_NoWait(id) ==
    IF is_zarr(assets[id]) THEN assets ELSE validate_asset_metadata(id)

\* _maybe_validate_asset_metadata: the Asset table after the call.
maybe_validate_asset_metadata(id) ==
    LET a == assets[id]
        blob == IF is_blob(a) THEN a.blob
                ELSE IF is_embargoed_blob(a) THEN a.embargoed_blob
                ELSE NoneV
    IN IF blob = NoneV THEN assets
       ELSE IF ~sha256[blob] THEN assets
       ELSE validate_asset_metadata(id)

(***************************************************************************)
(* Version rows.                                                           *)
(***************************************************************************)
Summary(files, bytes) == [numberOfFiles |-> files, numberOfBytes |-> bytes]

RECURSIVE SumSizes(_)
SumSizes(ids) ==
    IF ids = {} THEN 0
    ELSE LET id == CHOOSE x \in ids : TRUE
         IN AssetSize(assets[id]) + SumSizes(ids \ {id})

VersionMetadata(schemaVersion, description, assetsSummary) ==
    [schemaVersion |-> schemaVersion, description |-> description,
     assetsSummary |-> assetsSummary]

VersionRow(status, errors, metadata, modified) ==
    [status |-> status, validation_errors |-> errors, metadata |-> metadata,
     modified |-> modified]

\* Mutant: save() without setting the status to PENDING first.
version_save_KeepsStatus(row, snapshot) ==
    [status |-> snapshot.status, validation_errors |-> snapshot.validation_errors,
     metadata |-> snapshot.metadata, modified |-> row.modified + 1]

\* version.status = PENDING; version.save(): save() writes every field of the
\* in-memory object, which was read when the handler started.
version_save(row, snapshot) ==
    VersionRow("Pending", snapshot.validation_errors, snapshot.metadata,
               row.modified + 1)

\* The integer id of a version row, which the scheduled tasks pass around.
VersionId(v) == IF v = Draft THEN 1 ELSE 2

VersionOfId(n) == IF n = 1 THEN Draft ELSE Published

\* The ordered violations the schema validator reports for a version.
VersionSchemaErrors(metadata) ==
    IF metadata.schemaVersion \notin AllowedSchemaVersions
    THEN << VersionNotAllowed(metadata.schemaVersion) >>
    ELSE IF metadata.description THEN <<>>
    ELSE << Error("description", "field required") >>

\* The Version table after validate_version_metadata(version_id).
validate_version_metadata(n) ==
    LET v == VersionOfId(n)
        errors == VersionSchemaErrors(versions[v].metadata)
    IN [versions EXCEPT ![v] =
          [@ EXCEPT !.status = IF errors = NoErrors THEN "Valid" ELSE "Invalid",
                    !.validation_errors = errors]]

(***************************************************************************)
(* Request handlers of NestedAssetViewSet.                                 *)
(***************************************************************************)
NoRow == VersionRow("Pending", NoErrors,
                    VersionMetadata(NoneV, FALSE, Summary(0, 0)), 0)

\* op: the handler; ver: the addressed version; old: the addressed asset;
\* new: the unsaved asset built from the request; id: the saved asset the
\* response describes; version: the Version object read from the database;
\* error: the ValidationError a 400 response reports.
NoLoc == [op |-> NoneV, ver |-> Draft, old |-> 0, id |-> 0, new |-> NoAsset,
          version |-> NoRow, error |-> NoneV]

dbVars == <<assets, live, pathIndex, versions>>
contentVars == <<sha256, zarr>>
taskVars == <<queue, sweep, agg>>
clientVars == <<pc, loc, resp>>
uploadVars == <<validations, storage, uploadResp>>
zarrUploadVars == <<zarrArchive, reg>>
otherVars == <<uploadVars, zarrUploadVars, listing, vsweep>>

\* Mutant: the duplicate check looks at every Asset row, not at the version's.
PathExists_AllAssets(v, path) == \E id \in AssetIds : assets[id].path = path

\* version.assets.filter(path=path).exists()
PathExists(v, path) == \E id \in live[v] : assets[id].path = path

\* Mutant: the duplicate check of update does not exclude the old asset.
PathExistsExcluding_NoExclude(v, path, old) ==
    \E id \in live[v] : assets[id].path = path

\* version.assets.filter(path=path).exclude(asset_id=old.asset_id).exists()
PathExistsExcluding(v, path, old) ==
    \E id \in live[v] :
        assets[id].path = path /\ assets[id].asset_id # assets[old].asset_id

Finish(c, code) ==
    /\ pc' = [pc EXCEPT ![c] = "done"]
    /\ resp' = [resp EXCEPT ![c] = code]

Goto(c, label) ==
    /\ pc' = [pc EXCEPT ![c] = label]
    /\ UNCHANGED resp

\* The modified marker of a version is a counter here; a handler starts only
\* while the handlers in flight cannot push it past MaxModified.
InFlight == {c \in Clients : pc[c] \notin {"idle", "done"}}

CanStart == versions[Draft].modified + Cardinality(InFlight) < MaxModified

\* Mutant: the draft check is missing.
RequestError_NoDraftCheck(v, data) ==
    IF SerializerValidate(data) # "OK" THEN 400
    ELSE IF ContentNotFound(data) THEN 404
    ELSE 200

\* The ValidationError of a request the serializer refuses, NoneV otherwise.
RequestErrorDetail(v, data) ==
    IF v = Draft /\ SerializerValidate(data) # "OK" THEN SerializerValidate(data)
    ELSE NoneV

\* The outcome of get version, the draft check and asset_from_request.
RequestError(v, data) ==
    IF v # Draft THEN 405
    ELSE IF SerializerValidate(data) # "OK" THEN 400
    ELSE IF ContentNotFound(data) THEN 404
    ELSE 200

\* create, lines 311-323: fetch the version, refuse a non-draft version,
\* build the unsaved asset.
StartCreate(c, v, data) ==
    /\ pc[c] = "idle"
    /\ CanStart
    /\ IF RequestError(v, data) # 200
       THEN /\ Finish(c, RequestError(v, data))
            /\ loc' = [loc EXCEPT ![c] =
                         [NoLoc EXCEPT !.op = "create", !.ver = v,
                                       !.error = RequestErrorDetail(v, data)]]
       ELSE /\ Goto(c, "c_check")
            /\ loc' = [loc EXCEPT ![c] =
                         [NoLoc EXCEPT !.op = "create", !.ver = v,
                                       !.new = asset_from_request(data),
                                       !.version = versions[v]]]
    /\ UNCHANGED <<dbVars, contentVars, taskVars, otherVars>>

\* Mutant: create does not compare the dandiset of the zarr archive.
CreateCheck_NoZarrCheck(c) ==
    /\ pc[c] = "c_check"
    /\ IF PathExists(loc[c].ver, loc[c].new.path)
       THEN Finish(c, 409)
       ELSE Goto(c, "c_save")
    /\ UNCHANGED <<dbVars, contentVars, taskVars, loc, otherVars>>

\* Mutant: asset.save() runs before the checks, so a refused create leaves a row.
CreateCheck_SavesFirst(c) ==
    /\ pc[c] = "c_check"
    /\ IF PathExists(loc[c].ver, loc[c].new.path)
       THEN /\ Finish(c, 409) /\ UNCHANGED loc
            /\ assets' = Append(assets, loc[c].new)
       ELSE IF is_zarr(loc[c].new)
               /\ ZarrDandiset(loc[c].new.zarr) # VersionDandiset(loc[c].ver)
       THEN /\ Finish(c, 400)
            /\ loc' = [loc EXCEPT ![c].error = "CrossDandisetZarr"]
            /\ assets' = Append(assets, loc[c].new)
       ELSE Goto(c, "c_save") /\ UNCHANGED <<loc, assets>>
    /\ UNCHANGED <<live, pathIndex, versions, contentVars, taskVars, otherVars>>

\* create, lines 325-334: duplicate path, zarr of another dandiset.
CreateCheck(c) ==
    /\ pc[c] = "c_check"
    /\ IF PathExists(loc[c].ver, loc[c].new.path)
       THEN Finish(c, 409) /\ UNCHANGED loc
       ELSE IF is_zarr(loc[c].new)
               /\ ZarrDandiset(loc[c].new.zarr) # VersionDandiset(loc[c].ver)
       THEN /\ Finish(c, 400)
            /\ loc' = [loc EXCEPT ![c].error = "CrossDandisetZarr"]
       ELSE Goto(c, "c_save") /\ UNCHANGED loc
    /\ UNCHANGED <<dbVars, contentVars, taskVars, otherVars>>

\* Mutant: the asset is saved as VALID without having been validated.
CreateSave_Valid(c) ==
    /\ pc[c] = "c_save"
    /\ LET id == Len(assets) + 1
       IN /\ assets' = Append(assets, [loc[c].new EXCEPT !.asset_id = id,
                                                        !.status = "Valid"])
          /\ loc' = [loc EXCEPT ![c].id = id]
    /\ Goto(c, "c_add")
    /\ UNCHANGED <<live, pathIndex, versions, contentVars, taskVars, otherVars>>

\* create, line 336: asset.save()
CreateSave(c) ==
    /\ pc[c] = "c_save"
    /\ LET id == Len(assets) + 1
       IN /\ assets' = Append(assets, [loc[c].new EXCEPT !.asset_id = id])
          /\ loc' = [loc EXCEPT ![c].id = id]
    /\ Goto(c, "c_add")
    /\ UNCHANGED <<live, pathIndex, versions, contentVars, taskVars, otherVars>>

\* create, line 337: version.assets.add(asset)
CreateAdd(c) ==
    /\ pc[c] = "c_add"
    /\ live' = [live EXCEPT ![loc[c].ver] = @ \cup {loc[c].id}]
    /\ Goto(c, "c_paths")
    /\ UNCHANGED <<assets, pathIndex, versions, contentVars, taskVars, loc, otherVars>>

\* Mutant: create does not update the path index.
CreateAddPaths_Skipped(c) ==
    /\ pc[c] = "c_paths"
    /\ Goto(c, "c_vsave")
    /\ UNCHANGED <<assets, live, pathIndex, versions, contentVars, taskVars, loc, otherVars>>

\* create, line 340: add_asset(asset, version)
CreateAddPaths(c) ==
    /\ pc[c] = "c_paths"
    /\ pathIndex' = [pathIndex EXCEPT ![loc[c].ver] =
                       add_asset(@, loc[c].id, assets[loc[c].id])]
    /\ Goto(c, "c_vsave")
    /\ UNCHANGED <<assets, live, versions, contentVars, taskVars, loc, otherVars>>

\* create 343-345, update 415-417, destroy 451-453: mark the version PENDING
\* and save it.
VersionSave(c, from, to) ==
    /\ pc[c] = from
    /\ versions' = [versions EXCEPT ![loc[c].ver] = version_save(@, loc[c].version)]
    /\ Goto(c, to)
    /\ UNCHANGED <<assets, live, pathIndex, contentVars, taskVars, loc, otherVars>>

CreateVersionSave(c) == VersionSave(c, "c_vsave", "c_validate")

\* create, line 348, and the response.
CreateValidate(c) ==
    /\ pc[c] = "c_validate"
    /\ assets' = maybe_validate_asset_metadata(loc[c].id)
    /\ Finish(c, 200)
    /\ UNCHANGED <<live, pathIndex, versions, contentVars, taskVars, loc, otherVars>>

\* update, lines 381-386.  An Asset has the fields blob, embargoed_blob and
\* zarr; it has no attribute zarr_archive, so when the first three operands of
\* the conjunction are true, evaluating the fourth raises AttributeError.
CompareAssets(new, old) ==
    IF new.metadata # old.metadata THEN "changed"
    ELSE IF new.blob # old.blob THEN "changed"
    ELSE IF new.embargoed_blob # old.embargoed_blob THEN "changed"
    ELSE "AttributeError"

\* get_object() of the nested view set: the asset must belong to the version.
ObjectFound(v, id) == id \in live[v]

\* update, line 366: old_asset = self.get_object(), a query of its own.
StartUpdate(c, v, id) ==
    /\ pc[c] = "idle"
    /\ CanStart
    /\ IF ~ObjectFound(v, id)
       THEN /\ Finish(c, 404)
            /\ loc' = [loc EXCEPT ![c] = [NoLoc EXCEPT !.op = "update", !.ver = v]]
       ELSE /\ Goto(c, "u_version")
            /\ loc' = [loc EXCEPT ![c] =
                         [NoLoc EXCEPT !.op = "update", !.ver = v, !.old = id]]
    /\ UNCHANGED <<dbVars, contentVars, taskVars, otherVars>>

\* update, lines 367-379: the version row is read by the next query, after
\* whatever other requests committed in between; then the draft check and
\* asset_from_request, which reads the body of the request.
UpdateReadVersion(c, data) ==
    /\ pc[c] = "u_version"
    /\ LET v == loc[c].ver
       IN IF RequestError(v, data) # 200
          THEN /\ Finish(c, RequestError(v, data))
               /\ loc' = [loc EXCEPT ![c].error = RequestErrorDetail(v, data)]
          ELSE /\ Goto(c, "u_check")
               /\ loc' = [loc EXCEPT ![c].new = asset_from_request(data),
                                     ![c].version = versions[v]]
    /\ UNCHANGED <<dbVars, contentVars, taskVars, otherVars>>

\* update, lines 381-399.
UpdateCheck(c) ==
    /\ pc[c] = "u_check"
    /\ LET cmp == CompareAssets(loc[c].new, assets[loc[c].old])
       IN CASE cmp = "AttributeError" ->
                 /\ Finish(c, 500)
                 /\ UNCHANGED loc
            [] cmp = "unchanged" ->
                 /\ Goto(c, "u_vsave")
                 /\ loc' = [loc EXCEPT ![c].id = loc[c].old]
            [] OTHER ->
                 /\ IF PathExistsExcluding(loc[c].ver, loc[c].new.path, loc[c].old)
                    THEN Finish(c, 409)
                    ELSE Goto(c, "u_txn")
                 /\ UNCHANGED loc
    /\ UNCHANGED <<dbVars, contentVars, taskVars, otherVars>>

\* Mutant: the transaction adds the new asset but does not remove the old one.
UpdateTransaction_NoRemove(c) ==
    /\ pc[c] = "u_txn"
    /\ LET id == Len(assets) + 1
           new == [loc[c].new EXCEPT !.previous = loc[c].old, !.asset_id = id]
           v == loc[c].ver
       IN /\ assets' = Append(assets, new)
          /\ live' = [live EXCEPT ![v] = @ \cup {id}]
          /\ pathIndex' = [pathIndex EXCEPT ![v] = add_asset(@, id, new)]
          /\ loc' = [loc EXCEPT ![c].id = id]
    /\ Goto(c, "u_vsave")
    /\ UNCHANGED <<versions, contentVars, taskVars, otherVars>>

\* Mutant: the transaction does not set the previous link of the new asset.
UpdateTransaction_NoPrevious(c) ==
    /\ pc[c] = "u_txn"
    /\ LET id == Len(assets) + 1
           new == [loc[c].new EXCEPT !.asset_id = id]
           v == loc[c].ver
       IN /\ assets' = Append(assets, new)
          /\ live' = [live EXCEPT ![v] = (@ \cup {id}) \ {loc[c].old}]
          /\ pathIndex' = [pathIndex EXCEPT ![v] =
                             update_asset(@, loc[c].old, assets[loc[c].old], id, new)]
          /\ loc' = [loc EXCEPT ![c].id = id]
    /\ Goto(c, "u_vsave")
    /\ UNCHANGED <<versions, contentVars, taskVars, otherVars>>

\* update, lines 402-412: the transaction.atomic() block commits as one step.
UpdateTransaction(c) ==
    /\ pc[c] = "u_txn"
    /\ LET id == Len(assets) + 1
           new == [loc[c].new EXCEPT !.previous = loc[c].old, !.asset_id = id]
           v == loc[c].ver
       IN /\ assets' = Append(assets, new)
          /\ live' = [live EXCEPT ![v] = (@ \cup {id}) \ {loc[c].old}]
          /\ pathIndex' = [pathIndex EXCEPT ![v] =
                             update_asset(@, loc[c].old, assets[loc[c].old], id, new)]
          /\ loc' = [loc EXCEPT ![c].id = id]
    /\ Goto(c, "u_vsave")
    /\ UNCHANGED <<versions, contentVars, taskVars, otherVars>>

UpdateVersionSave(c) == VersionSave(c, "u_vsave", "u_validate")

\* update, line 420, and the response.
UpdateValidate(c) ==
    /\ pc[c] = "u_validate"
    /\ assets' = maybe_validate_asset_metadata(loc[c].id)
    /\ Finish(c, 200)
    /\ UNCHANGED <<live, pathIndex, versions, contentVars, taskVars, loc, otherVars>>

\* destroy, line 435: asset = self.get_object(), a query of its own.
StartDestroy(c, v, id) ==
    /\ pc[c] = "idle"
    /\ CanStart
    /\ IF ~ObjectFound(v, id)
       THEN /\ Finish(c, 404)
            /\ loc' = [loc EXCEPT ![c] = [NoLoc EXCEPT !.op = "destroy", !.ver = v]]
       ELSE /\ Goto(c, "d_version")
            /\ loc' = [loc EXCEPT ![c] =
                         [NoLoc EXCEPT !.op = "destroy", !.ver = v, !.old = id]]
    /\ UNCHANGED <<dbVars, contentVars, taskVars, otherVars>>

\* destroy, lines 436-445: the version row is read by the next query, then
\* the draft check.
DestroyReadVersion(c) ==
    /\ pc[c] = "d_version"
    /\ IF loc[c].ver # Draft
       THEN /\ Finish(c, 405)
            /\ UNCHANGED loc
       ELSE /\ Goto(c, "d_remove")
            /\ loc' = [loc EXCEPT ![c].version = versions[loc[c].ver]]
    /\ UNCHANGED <<dbVars, contentVars, taskVars, otherVars>>

\* Mutant: destroy wipes the Asset row as well.
DestroyRemove_DeletesRow(c) ==
    /\ pc[c] = "d_remove"
    /\ live' = [live EXCEPT ![loc[c].ver] = @ \ {loc[c].old}]
    /\ assets' = [assets EXCEPT ![loc[c].old] = NoAsset]
    /\ Goto(c, "d_paths")
    /\ UNCHANGED <<pathIndex, versions, contentVars, taskVars, loc, otherVars>>

\* destroy, line 447: version.assets.remove(asset)
DestroyRemove(c) ==
    /\ pc[c] = "d_remove"
    /\ live' = [live EXCEPT ![loc[c].ver] = @ \ {loc[c].old}]
    /\ Goto(c, "d_paths")
    /\ UNCHANGED <<assets, pathIndex, versions, contentVars, taskVars, loc, otherVars>>

\* destroy, line 448: delete_asset(asset, version)
DestroyDeletePaths(c) ==
    /\ pc[c] = "d_paths"
    /\ pathIndex' = [pathIndex EXCEPT ![loc[c].ver] =
                       delete_asset(@, loc[c].old, assets[loc[c].old])]
    /\ Goto(c, "d_vsave")
    /\ UNCHANGED <<assets, live, versions, contentVars, taskVars, loc, otherVars>>

\* destroy, lines 451-455.
DestroyVersionSave(c) ==
    /\ pc[c] = "d_vsave"
    /\ versions' = [versions EXCEPT ![loc[c].ver] = version_save(@, loc[c].version)]
    /\ Finish(c, 204)
    /\ UNCHANGED <<assets, live, pathIndex, contentVars, taskVars, loc, otherVars>>

\* The response has been delivered; the client may issue its next request.
Return(c) ==
    /\ pc[c] = "done"
    /\ pc' = [pc EXCEPT ![c] = "idle"]
    /\ resp' = [resp EXCEPT ![c] = 0]
    /\ loc' = [loc EXCEPT ![c] = NoLoc]
    /\ UNCHANGED <<dbVars, contentVars, taskVars, otherVars>>

(***************************************************************************)
(* Initial state: the draft and the published version both hold asset 1,   *)
(* a valid asset at c.nwb backed by blob B1.  The other blobs may or may    *)
(* not have their checksum yet; zarr Z1 may still be uploading.            *)
(***************************************************************************)
NoSweep == [pc |-> "idle", todo |-> {}]

\* Nothing uploaded, nothing registered, nothing listed.
Uploaders == {1, 2}
NoResponse == [code |-> 0, detail |-> NoneV,
               data |-> [object_key |-> NoneV, sha256 |-> NoneV]]
ZarrFilePaths == {"0/0", "0/1"}
NoFile == -1
NewZarrArchive == [files |-> [f \in ZarrFilePaths |-> NoFile], file_count |-> 0,
                   size |-> 0, lock |-> 0]
NoReg == [pc |-> "idle", path |-> NoneV, size |-> 0, found |-> NoFile,
          file_count |-> 0, total |-> 0]
NoVersionSweep == [pc |-> "idle", todo |-> {}]
NoListing == [code |-> 0, version |-> Draft, prefix |-> <<>>, children |-> <<>>]

OtherIdle ==
    /\ validations = <<>>
    /\ storage = {}
    /\ uploadResp = NoResponse
    /\ zarrArchive = NewZarrArchive
    /\ reg = [u \in Uploaders |-> NoReg]
    /\ listing = NoListing
    /\ vsweep = NoVersionSweep
NoAgg == [pc |-> "idle", version |-> NoneV, modified |-> 0,
          summary |-> Summary(0, 0), retries |-> 0]

ZarrPending == [status |-> "Pending", checksum |-> FALSE]
ZarrComplete == [status |-> "Complete", checksum |-> TRUE]

OkMetadata(path) == Metadata(TRUE, path, SchemaVersion, TRUE, FALSE)

FirstAsset ==
    [Asset(PathC, "B1", NoneV, NoneV, strip_metadata(OkMetadata(PathC)))
       EXCEPT !.status = "Valid", !.asset_id = 1]

FirstVersionRow ==
    VersionRow("Valid", NoErrors,
               VersionMetadata(SchemaVersion, TRUE, Summary(1, BlobSize("B1"))), 0)

Init ==
    /\ assets = << FirstAsset >>
    /\ live = [v \in Versions |-> {1}]
    /\ pathIndex = [v \in Versions |-> add_asset(EmptyIndex, 1, FirstAsset)]
    /\ versions = [v \in Versions |-> FirstVersionRow]
    /\ sha256 \in {f \in [AssetBlobIds \cup EmbargoedBlobIds -> BOOLEAN] : f["B1"]}
    /\ zarr \in {f \in [ZarrIds -> {ZarrPending, ZarrComplete}] : f["Z2"] = ZarrComplete}
    /\ pc = [c \in Clients |-> "idle"]
    /\ loc = [c \in Clients |-> NoLoc]
    /\ resp = [c \in Clients |-> 0]
    /\ queue = <<>>
    /\ sweep = NoSweep
    /\ agg = NoAgg
    /\ OtherIdle

(***************************************************************************)
(* Request payloads the clients send.                                      *)
(***************************************************************************)
NoEncMetadata(path) == Metadata(TRUE, path, SchemaVersion, FALSE, FALSE)

ValidRequests ==
    { Request(OkMetadata(PathA), "B1", NoneV),
      Request(OkMetadata(PathB), "B2", NoneV),
      Request(NoEncMetadata(PathA), "E1", NoneV),
      Request(OkMetadata(PathB), NoneV, "Z1"),
      Request(OkMetadata(PathC), "B1", NoneV),
      Request(OkMetadata(PathA), NoneV, "Z2"),
      \* no schemaVersion: the serializer fills in the default
      Request(Metadata(TRUE, PathA, NoneV, TRUE, FALSE), "B1", NoneV),
      \* carries content-derived keys: strip_metadata removes them
      Request(Metadata(TRUE, PathC, SchemaVersion, TRUE, TRUE), "B1", NoneV) }

RejectedRequests ==
    { Request(OkMetadata(PathA), "B1", "Z1"),
      Request(OkMetadata(PathA), NoneV, NoneV),
      Request(Metadata(FALSE, <<>>, SchemaVersion, TRUE, FALSE), "B1", NoneV),
      Request(OkMetadata(PathEmpty), "B1", NoneV),
      Request(OkMetadata(PathDotDot), "B1", NoneV),
      Request(OkMetadata(PathEmptySegment), "B1", NoneV),
      Request(OkMetadata(PathA), UnknownId, NoneV),
      Request(OkMetadata(PathA), NoneV, UnknownId) }

Requests == ValidRequests \cup RejectedRequests

(***************************************************************************)
(* SpecSeq: one client, one request at a time.                             *)
(***************************************************************************)
Step(c) ==
    \/ CreateCheck(c)
    \/ CreateSave(c)
    \/ CreateAdd(c)
    \/ CreateAddPaths(c)
    \/ CreateVersionSave(c)
    \/ CreateValidate(c)
    \/ UpdateCheck(c)
    \/ UpdateTransaction(c)
    \/ UpdateVersionSave(c)
    \/ UpdateValidate(c)
    \/ DestroyReadVersion(c)
    \/ DestroyRemove(c)
    \/ DestroyDeletePaths(c)
    \/ DestroyVersionSave(c)
    \/ Return(c)

NextSeq ==
    \/ \E v \in Versions, data \in Requests : StartCreate(1, v, data)
    \/ \E v \in Versions, id \in AssetIds : StartUpdate(1, v, id)
    \/ \E data \in Requests : UpdateReadVersion(1, data)
    \/ \E v \in Versions, id \in AssetIds : StartDestroy(1, v, id)
    \/ Step(1)

SpecSeq == Init /\ [][NextSeq]_vars

(***************************************************************************)
(* Properties of the sequential handlers (SpecSeq).                        *)
(***************************************************************************)
Completed(c) == pc[c] \in {"idle", "done"}

LiveUnder(v, d) == {id \in live[v] : d \in ProperPrefixes(assets[id].path)}

IndexMatches(v) ==
    /\ pathIndex[v].leaves = live[v]
    /\ \A d \in Dirs :
         /\ pathIndex[v].nodes[d].files = Cardinality(LiveUnder(v, d))
         /\ pathIndex[v].nodes[d].size = SumSizes(LiveUnder(v, d))

\* C2: after every completed create, update or destroy, every directory node
\* of the path index of every version has a file count equal to the number of
\* live assets below it and a size equal to the sum of their sizes, and the
\* leaves are the live assets.
C2_IndexMatchesLiveAssets ==
    Completed(1) => \A v \in Versions : IndexMatches(v)

\* A destroy has completed after an update and a create: one live asset, a
\* successor, is left under sub/.
C2_Witness ==
    /\ pc[1] = "done" /\ loc[1].op = "destroy" /\ resp[1] = 204
    /\ pathIndex[Draft].nodes[<<"sub">>].files = 1
    /\ pathIndex[Draft].nodes[<<>>].files = 1
    /\ \E id \in live[Draft] : assets[id].previous # 0

\* C3: a create addressed to a non-draft version, and an update or destroy
\* addressed to an asset of a non-draft version, is answered 405, and the
\* live asset set, path index, status and modified marker of the non-draft
\* version never change.
C3_NonDraftImmutable ==
    /\ live[Published] = {1}
    /\ pathIndex[Published] = add_asset(EmptyIndex, 1, FirstAsset)
    /\ versions[Published] = FirstVersionRow
    /\ \A c \in Clients :
         (/\ pc[c] = "done"
          /\ loc[c].ver # Draft
          /\ (loc[c].op = "create" \/ loc[c].old \in live[loc[c].ver]))
         => resp[c] = 405

\* An update of asset 1 in the published version was refused after the draft
\* had been modified.
C3_Witness ==
    /\ pc[1] = "done" /\ loc[1].op = "update" /\ loc[1].ver = Published
    /\ loc[1].old = 1 /\ resp[1] = 405
    /\ versions[Draft].modified > 0

\* The request of client c passed the serializer and the content lookup and
\* describes exactly the asset it addresses.
SameAsOld(c) ==
    /\ loc[c].op = "update" /\ loc[c].old # 0 /\ loc[c].new # NoAsset
    /\ loc[c].new.path = assets[loc[c].old].path
    /\ loc[c].new.metadata = assets[loc[c].old].metadata
    /\ loc[c].new.blob = assets[loc[c].old].blob
    /\ loc[c].new.embargoed_blob = assets[loc[c].old].embargoed_blob
    /\ loc[c].new.zarr = assets[loc[c].old].zarr

\* C4: an update whose path, metadata and content reference equal those of
\* the addressed asset succeeds and returns that asset.
C4_IdenticalUpdateReturnsOriginal ==
    \A c \in Clients :
        (pc[c] = "done" /\ loc[c].ver = Draft /\ SameAsOld(c))
        => (resp[c] = 200 /\ loc[c].id = loc[c].old)

\* C10: a create on the draft whose request is well formed is answered 409
\* exactly when another live asset of the draft has the requested path; when
\* none has and the zarr belongs to the dandiset, the answer is 200 and the
\* new asset is live at that path.
C10_CreateDuplicatePath ==
    (/\ pc[1] = "done" /\ loc[1].op = "create" /\ loc[1].ver = Draft
     /\ loc[1].new # NoAsset)
    => LET new == loc[1].new
           dup == \E id \in live[Draft] \ {loc[1].id} : assets[id].path = new.path
           cross == is_zarr(new) /\ ZarrDandiset(new.zarr) # VersionDandiset(Draft)
       IN /\ dup <=> resp[1] = 409
          /\ resp[1] = 409 => loc[1].id = 0
          /\ (~dup /\ ~cross) =>
                /\ resp[1] = 200
                /\ loc[1].id \in live[Draft]
                /\ assets[loc[1].id].path = new.path

\* A create was refused as a duplicate although the path had been freed and
\* taken again: the draft holds a successor or later asset at it.
C10_Witness ==
    /\ pc[1] = "done" /\ loc[1].op = "create" /\ resp[1] = 409
    /\ \E id \in live[Draft] : id > 1 /\ assets[id].path = loc[1].new.path
    /\ \E id \in AssetIds \ live[Draft] : TRUE

(***************************************************************************)
(* Spec: two clients send requests for the draft version concurrently;     *)
(* their handlers interleave commit by commit.                             *)
(***************************************************************************)
ConcurrentRequests ==
    { Request(OkMetadata(PathA), "B1", NoneV),
      Request(NoEncMetadata(PathC), "B1", NoneV),
      Request(OkMetadata(PathC), "B2", NoneV) }

InitConcurrent ==
    /\ Init
    /\ sha256 = [b \in AssetBlobIds \cup EmbargoedBlobIds |-> b # "B2"]
    /\ zarr = [z \in ZarrIds |-> ZarrComplete]

Next ==
    \/ \E c \in Clients, data \in ConcurrentRequests : StartCreate(c, Draft, data)
    \/ \E c \in Clients, id \in AssetIds : StartUpdate(c, Draft, id)
    \/ \E c \in Clients, data \in ConcurrentRequests : UpdateReadVersion(c, data)
    \/ \E c \in Clients, id \in AssetIds : StartDestroy(c, Draft, id)
    \/ \E c \in Clients : Step(c)

Spec == InitConcurrent /\ [][Next]_vars

(***************************************************************************)
(* Properties of the concurrent handlers (Spec).                           *)
(***************************************************************************)
\* C1: no interleaving of two updates of the same asset leaves two
\* successors of that asset both live at the same path of the draft.
C1_OneSuccessorPerPath ==
    \A a, b \in live[Draft] :
        (/\ a # b
         /\ assets[a].previous # 0
         /\ assets[a].previous = assets[b].previous)
        => assets[a].path # assets[b].path

\* C5: every database state shows exactly one of an asset and its successor
\* as live: the step that commits an update stores the successor, makes it
\* live and makes the replaced asset not live, and no state has a successor
\* live together with the asset it replaced.
C5_ReplaceIsAtomic ==
    [][ /\ \A c \in Clients :
             (pc[c] = "u_txn" /\ pc'[c] = "u_vsave")
             => /\ loc'[c].id \in live'[Draft]
                /\ assets'[loc'[c].id].previous = loc[c].old
                /\ loc[c].old \notin live'[Draft]
        /\ \A id \in 1..Len(assets') :
             assets'[id].previous # 0
             => /\ ~(id \in live'[Draft] /\ assets'[id].previous \in live'[Draft])
                /\ id > Len(assets) => id \in live'[Draft]
      ]_vars

\* An update has committed while the other client is in the middle of a
\* handler: the successor is live, the replaced asset is not.
C5_Witness ==
    /\ pc[1] = "u_vsave"
    /\ loc[1].id \in live[Draft]
    /\ loc[1].old \notin live[Draft]
    /\ pc[2] \notin {"idle", "done"}

(***************************************************************************)
(* Background work: checksum computation, the periodic asset sweep         *)
(* (tasks/scheduled.py) and the celery worker.                             *)
(***************************************************************************)
MaxQueue == 2
MaxSweepModified == 2

Message(task, arg) == [task |-> task, arg |-> arg]

RemoveAt(q, i) == SubSeq(q, 1, i - 1) \o SubSeq(q, i + 1, Len(q))

\* tasks.calculate_sha256: the checksum of an uploaded blob becomes known.
CalculateSha256(b) ==
    /\ ~sha256[b]
    /\ sha256' = [sha256 EXCEPT ![b] = TRUE]
    /\ UNCHANGED <<dbVars, zarr, clientVars, taskVars, otherVars>>

\* The upload of a zarr archive is finalized: checksum computed, COMPLETE.
ZarrCompleteUpload(z) ==
    /\ zarr[z] = ZarrPending
    /\ zarr' = [zarr EXCEPT ![z] = ZarrComplete]
    /\ UNCHANGED <<dbVars, sha256, clientVars, taskVars, otherVars>>

\* Mutant: the filter takes a zarr asset whatever the state of its archive.
Validatable_AnyZarr(a) ==
    /\ a.status = "Pending"
    /\ \/ (a.blob # NoneV /\ sha256[a.blob])
       \/ a.zarr # NoneV

\* validate_pending_asset_metadata, lines 70-81: the filter of the sweep.
Validatable(a) ==
    /\ a.status = "Pending"
    /\ \/ (a.blob # NoneV /\ sha256[a.blob])
       \/ (a.zarr # NoneV /\ zarr[a.zarr].checksum /\ zarr[a.zarr].status = "Complete")

\* validate_pending_asset_metadata, lines 70-83: enumerate the assets to
\* validate; nothing is dispatched when there is none.
SweepStart ==
    /\ sweep.pc = "idle"
    /\ LET validatable_assets == {id \in AssetIds : Validatable(assets[id])}
       IN sweep' = IF validatable_assets = {} THEN NoSweep
                   ELSE [pc |-> "dispatch", todo |-> validatable_assets]
    /\ UNCHANGED <<dbVars, contentVars, clientVars, queue, agg, otherVars>>

\* lines 85-86 with throttled_iterator line 54: the next id is yielded and
\* validate_asset_metadata_task.delay(asset_id) puts it on the queue.  The
\* query has no ordering, so any remaining id may come next.
SweepDispatch ==
    /\ sweep.pc = "dispatch"
    /\ Len(queue) < MaxQueue
    /\ \E id \in sweep.todo :
         /\ queue' = Append(queue, Message("validate_asset_metadata", id))
         /\ sweep' = [pc |-> "sleep", todo |-> sweep.todo \ {id}]
    /\ UNCHANGED <<dbVars, contentVars, clientVars, agg, otherVars>>

\* throttled_iterator, line 55: time.sleep(1 / max_per_second), then the
\* next item or the end of the sweep.
SweepSleep ==
    /\ sweep.pc = "sleep"
    /\ sweep' = IF sweep.todo = {} THEN NoSweep
                ELSE [sweep EXCEPT !.pc = "dispatch"]
    /\ UNCHANGED <<dbVars, contentVars, clientVars, queue, agg, otherVars>>

\* A worker runs validate_asset_metadata_task(asset_id).
RunValidateAsset(i) ==
    /\ i \in 1..Len(queue)
    /\ queue[i].task = "validate_asset_metadata"
    /\ assets' = validate_asset_metadata(queue[i].arg)
    /\ queue' = RemoveAt(queue, i)
    /\ UNCHANGED <<live, pathIndex, versions, contentVars, clientVars, sweep, agg, otherVars>>

(***************************************************************************)
(* SpecSweep: one client attaches and replaces assets of every content     *)
(* kind while checksums complete and the asset sweep runs.                 *)
(***************************************************************************)
SweepRequests ==
    { Request(OkMetadata(PathA), "B2", NoneV),
      Request(NoEncMetadata(PathB), "E1", NoneV),
      Request(OkMetadata(PathB), NoneV, "Z1") }

InitSweep ==
    /\ Init
    /\ sha256 = [b \in AssetBlobIds \cup EmbargoedBlobIds |-> b = "B1"]
    /\ zarr = [z \in ZarrIds |-> IF z = "Z1" THEN ZarrPending ELSE ZarrComplete]

\* The client of SpecSweep stops after MaxSweepModified modifications.
SweepCanStart == versions[Draft].modified < MaxSweepModified

NextSweep ==
    \/ \E data \in SweepRequests : SweepCanStart /\ StartCreate(1, Draft, data)
    \/ \E id \in AssetIds : SweepCanStart /\ StartUpdate(1, Draft, id)
    \/ \E data \in SweepRequests : UpdateReadVersion(1, data)
    \/ \E id \in AssetIds : SweepCanStart /\ StartDestroy(1, Draft, id)
    \/ Step(1)
    \/ \E b \in AssetBlobIds \cup EmbargoedBlobIds : CalculateSha256(b)
    \/ \E z \in ZarrIds : ZarrCompleteUpload(z)
    \/ SweepStart
    \/ SweepDispatch
    \/ SweepSleep
    \/ \E i \in 1..MaxQueue : RunValidateAsset(i)

SpecSweep == InitSweep /\ [][NextSweep]_vars

\* The backing content of an asset is fully processed.
ContentReady(a) ==
    IF is_blob(a) THEN sha256[a.blob]
    ELSE IF is_embargoed_blob(a) THEN sha256[a.embargoed_blob]
    ELSE zarr[a.zarr].status = "Complete" /\ zarr[a.zarr].checksum

\* C7: through the inline validation of create and update and through the
\* asset sweep, an asset whose content is not ready is never validated: it is
\* PENDING with no validation errors, no step changes its row, and no
\* validation task for it is put on the queue.
C7_NotReadyIsNoOp ==
    [][ \A id \in AssetIds :
          ~ContentReady(assets[id])
          => /\ assets[id].status = "Pending"
             /\ assets[id].validation_errors = NoErrors
             /\ assets'[id] = assets[id]
             /\ \A i \in 1..Len(queue') : queue'[i].arg # id
      ]_vars

\* The sweep has dispatched a blob asset whose checksum arrived after its
\* creation, while a live zarr asset, created since, still waits for its
\* archive: the inline validation returned without touching either.
C7_Witness ==
    /\ sweep.pc = "sleep"
    /\ \E i \in 1..Len(queue) : is_blob(assets[queue[i].arg])
    /\ \E id \in live[Draft] : is_zarr(assets[id]) /\ ~ContentReady(assets[id])
    /\ pc[1] = "idle"

(***************************************************************************)
(* The worker tasks on versions: validate_version_metadata,                *)
(* write_manifest_files and the aggregation of the assets summary.         *)
(***************************************************************************)
\* A worker runs validate_version_metadata_task(version_id).
RunValidateVersion(i) ==
    /\ i \in 1..Len(queue)
    /\ queue[i].task = "validate_version_metadata"
    /\ versions' = validate_version_metadata(queue[i].arg)
    /\ queue' = RemoveAt(queue, i)
    /\ UNCHANGED <<assets, live, pathIndex, contentVars, clientVars, sweep, agg, otherVars>>

(***************************************************************************)
(* SpecTask: the validation tasks on one asset and one draft version whose *)
(* metadata, content and readiness are drawn from the cases of             *)
(* tests/test_tasks.py.                                                    *)
(***************************************************************************)
TaskSchemaVersions == {SchemaVersion, NoneV, "xxx"}

TaskAssets ==
    { [Asset(PathC, c[1], c[2], c[3],
             strip_metadata(Metadata(TRUE, PathC, sv, enc, FALSE)))
         EXCEPT !.asset_id = 1] :
        c \in { <<"B1", NoneV, NoneV>>, <<NoneV, "E1", NoneV>>,
                <<NoneV, NoneV, "Z1">> },
        sv \in TaskSchemaVersions, enc \in BOOLEAN }

TaskVersionRows ==
    { VersionRow("Pending", NoErrors,
                 VersionMetadata(sv, description, Summary(0, 0)), 0) :
        sv \in TaskSchemaVersions, description \in BOOLEAN }

TaskQueues ==
    LET a == Message("validate_asset_metadata", 1)
        v == Message("validate_version_metadata", VersionId(Draft))
    IN { <<a, v>>, <<v, a>>, <<a, a>>, <<v, v>> }

InitTask ==
    /\ assets \in {<< a >> : a \in TaskAssets}
    /\ live = [v \in Versions |-> IF v = Draft THEN {1} ELSE {}]
    /\ pathIndex = [v \in Versions |->
                      IF v = Draft THEN add_asset(EmptyIndex, 1, assets[1])
                      ELSE EmptyIndex]
    /\ versions \in {[v \in Versions |-> IF v = Draft THEN row ELSE FirstVersionRow] :
                       row \in TaskVersionRows}
    /\ sha256 \in {f \in [AssetBlobIds \cup EmbargoedBlobIds -> BOOLEAN] : f["B2"]}
    /\ zarr \in {f \in [ZarrIds -> {ZarrPending, ZarrComplete}] : f["Z2"] = ZarrComplete}
    /\ pc = [c \in Clients |-> "idle"]
    /\ loc = [c \in Clients |-> NoLoc]
    /\ resp = [c \in Clients |-> 0]
    /\ queue \in TaskQueues
    /\ sweep = NoSweep
    /\ agg = NoAgg
    /\ OtherIdle

NextTask ==
    \/ \E i \in 1..MaxQueue : RunValidateAsset(i)
    \/ \E i \in 1..MaxQueue : RunValidateVersion(i)
    \/ \E b \in AssetBlobIds \cup EmbargoedBlobIds : CalculateSha256(b)
    \/ \E z \in ZarrIds : ZarrCompleteUpload(z)

SpecTask == InitTask /\ [][NextTask]_vars

DigestError == Error("digest", "Digest is missing dandi-etag or sha256 keys.")

\* C8: validate_asset_metadata run on an asset whose blob has no sha256
\* records status INVALID; when the schema version of the metadata is an
\* allowed one, the validation error on field 'digest' closes the recorded
\* list, and it is the whole list when the metadata is otherwise valid.
C8_NoDigestIsInvalid ==
    [][ \A i \in 1..Len(queue) :
          (queue' = RemoveAt(queue, i) /\ queue[i].task = "validate_asset_metadata")
          => LET id == queue[i].arg
                 a == assets[id]
                 errors == assets'[id].validation_errors
             IN (is_blob(a) /\ ~sha256[a.blob])
                => /\ assets'[id].status = "Invalid"
                   /\ a.metadata.schemaVersion \in AllowedSchemaVersions
                      => /\ errors # NoErrors
                         /\ errors[Len(errors)] = DigestError
                         /\ a.metadata.encodingFormat => errors = << DigestError >>
      ]_vars

\* The task has run on a blob asset with valid metadata whose blob still has
\* no sha256: the asset is INVALID with the digest error alone.
C8_Witness ==
    /\ is_blob(assets[1])
    /\ ~sha256[assets[1].blob]
    /\ assets[1].status = "Invalid"
    /\ assets[1].validation_errors = << DigestError >>
    /\ \A i \in 1..Len(queue) : queue[i].task # "validate_asset_metadata"

\* C9: when validate_asset_metadata completes on an asset whose content is
\* ready, or validate_version_metadata completes on a version, the record
\* is VALID with an empty list of validation errors or INVALID with a
\* non-empty list equal, in order, to the violations of the schema validator;
\* it is never left PENDING.
C9_ValidationOutcome ==
    [][ \A i \in 1..Len(queue) :
          queue' = RemoveAt(queue, i)
          => /\ queue[i].task = "validate_asset_metadata"
                => LET id == queue[i].arg
                       a == assets[id]
                       errors == AssetSchemaErrors(a.metadata, DigestReady(a))
                   IN ContentReady(a)
                      => /\ assets'[id].validation_errors = errors
                         /\ assets'[id].status =
                              IF errors = NoErrors THEN "Valid" ELSE "Invalid"
             /\ queue[i].task = "validate_version_metadata"
                => LET v == VersionOfId(queue[i].arg)
                       errors == VersionSchemaErrors(versions[v].metadata)
                   IN /\ versions'[v].validation_errors = errors
                      /\ versions'[v].status =
                           IF errors = NoErrors THEN "Valid" ELSE "Invalid"
      ]_vars

\* Both tasks have run: the asset, whose content was ready, is INVALID with
\* the one violation of its metadata, and the version is VALID with none.
C9_Witness ==
    /\ queue = <<>>
    /\ ContentReady(assets[1])
    /\ assets[1].status = "Invalid"
    /\ assets[1].validation_errors = << Error("encodingFormat", "field required") >>
    /\ versions[Draft].status = "Valid"
    /\ versions[Draft].validation_errors = NoErrors

(***************************************************************************)
(* The version sweep (validate_draft_version_metadata) and the aggregation *)
(* of the assets summary (aggregate_assets_summary_task).  The aggregation *)
(* reads the version row, scans the live assets, and writes the summary    *)
(* back only if the modified marker of the row is the one it read;         *)
(* otherwise VersionMetadataConcurrentlyModifiedError is raised and celery *)
(* runs the task again after a backoff, MaxRetries times at most.          *)
(***************************************************************************)
MaxVersionQueue == 3
MaxRetries == 1
MaxAggModified == 2

\* Mutant: the query does not filter on the status.
PendingDraftVersions_NoStatusFilter == {Draft}

\* Mutant: the query does not filter on version = 'draft'.
PendingDraftVersions_NoDraftFilter ==
    {v \in Versions : versions[v].status = "Pending"}

\* validate_draft_version_metadata, lines 92-96: the versions that are
\* PENDING and named 'draft'.
PendingDraftVersions ==
    {v \in Versions : versions[v].status = "Pending" /\ v = Draft}

\* Lines 100-106: the three tasks dispatched for one version, in this order.
VersionTasks(v) ==
    << Message("validate_version_metadata", VersionId(v)),
       Message("aggregate_assets_summary", VersionId(v)),
       Message("write_manifest_files", VersionId(v)) >>

\* validate_draft_version_metadata, line 97: pending_draft_versions.count().
\* With no PENDING draft the task ends having done nothing.  The queue of
\* the model is bounded: a sweep starts while its messages have room.
VersionSweepCount ==
    /\ vsweep.pc = "idle"
    /\ Len(queue) + 3 <= MaxVersionQueue
    /\ PendingDraftVersions # {}
    /\ vsweep' = [vsweep EXCEPT !.pc = "iterate"]
    /\ UNCHANGED <<dbVars, contentVars, clientVars, taskVars, uploadVars, zarrUploadVars,
                   listing>>

\* Line 100: pending_draft_versions.iterator() runs the query again; its
\* result is what the loop goes through.
VersionSweepIterate ==
    /\ vsweep.pc = "iterate"
    /\ vsweep' = IF PendingDraftVersions = {} THEN NoVersionSweep
                 ELSE [pc |-> "validate", todo |-> PendingDraftVersions]
    /\ UNCHANGED <<dbVars, contentVars, clientVars, taskVars, uploadVars, zarrUploadVars,
                   listing>>

\* The position of the loop body: which of the three .delay calls is next.
VersionSweepPosition(label) ==
    CASE label = "validate" -> 1
      [] label = "aggregate" -> 2
      [] label = "manifest" -> 3

\* Lines 101, 102 and 106: one .delay call puts one message on the queue,
\* with no pause before the next; after the third the loop goes on to the
\* next version of the result, if any.
VersionSweepDispatch ==
    /\ vsweep.pc \in {"validate", "aggregate", "manifest"}
    /\ LET v == CHOOSE w \in vsweep.todo : TRUE
           k == VersionSweepPosition(vsweep.pc)
       IN /\ queue' = Append(queue, VersionTasks(v)[k])
          /\ vsweep' = CASE k = 1 -> [vsweep EXCEPT !.pc = "aggregate"]
                         [] k = 2 -> [vsweep EXCEPT !.pc = "manifest"]
                         [] k = 3 -> IF vsweep.todo = {v} THEN NoVersionSweep
                                     ELSE [pc |-> "validate", todo |-> vsweep.todo \ {v}]
    /\ UNCHANGED <<dbVars, contentVars, clientVars, sweep, agg, uploadVars,
                   zarrUploadVars, listing>>

\* A worker runs write_manifest_files(version_id): the manifests go to the
\* object store, no row changes.
RunWriteManifest(i) ==
    /\ i \in 1..Len(queue)
    /\ queue[i].task = "write_manifest_files"
    /\ queue' = RemoveAt(queue, i)
    /\ UNCHANGED <<dbVars, contentVars, clientVars, sweep, agg, otherVars>>

\* aggregate_assets_summary_task, lines 63-64: a worker takes the task and
\* reads the version row, modified marker included.
AggStart(i) ==
    /\ agg.pc \in {"idle", "failed"}
    /\ i \in 1..Len(queue)
    /\ queue[i].task = "aggregate_assets_summary"
    /\ LET v == VersionOfId(queue[i].arg)
       IN agg' = [pc |-> "read", version |-> v, modified |-> versions[v].modified,
                  summary |-> Summary(0, 0), retries |-> 0]
    /\ queue' = RemoveAt(queue, i)
    /\ UNCHANGED <<dbVars, contentVars, clientVars, sweep, otherVars>>

\* version_aggregate_assets_summary: the scan of the live assets.
AggScan ==
    /\ agg.pc = "read"
    /\ agg' = [agg EXCEPT !.pc = "scanned",
                          !.summary = Summary(Cardinality(live[agg.version]),
                                              SumSizes(live[agg.version]))]
    /\ UNCHANGED <<dbVars, contentVars, clientVars, queue, sweep, otherVars>>

\* The optimistic check of the write-back.
AggUnchanged == versions[agg.version].modified = agg.modified

\* version_aggregate_assets_summary: the marker is the one read, the summary
\* is merged into the metadata of the row.
AggWrite ==
    /\ agg.pc = "scanned"
    /\ AggUnchanged
    /\ versions' = [versions EXCEPT ![agg.version].metadata.assetsSummary = agg.summary]
    /\ agg' = NoAgg
    /\ UNCHANGED <<assets, live, pathIndex, contentVars, clientVars, queue, sweep, otherVars>>

\* Mutant: the retry has no budget (max_retries=None).
AggReject_NoBudget ==
    /\ agg.pc = "scanned"
    /\ ~AggUnchanged
    /\ agg' = [agg EXCEPT !.pc = "backoff", !.retries = @ + 1]
    /\ UNCHANGED <<dbVars, contentVars, clientVars, queue, sweep, otherVars>>

\* The marker has changed: VersionMetadataConcurrentlyModifiedError, and
\* autoretry_for (line 60) schedules the task again.
AggReject ==
    /\ agg.pc = "scanned"
    /\ ~AggUnchanged
    /\ agg.retries < MaxRetries
    /\ agg' = [agg EXCEPT !.pc = "backoff", !.retries = @ + 1]
    /\ UNCHANGED <<dbVars, contentVars, clientVars, queue, sweep, otherVars>>

\* After the backoff (line 61) the task runs again from line 64.
AggRetry ==
    /\ agg.pc = "backoff"
    /\ agg' = [agg EXCEPT !.pc = "read", !.modified = versions[agg.version].modified]
    /\ UNCHANGED <<dbVars, contentVars, clientVars, queue, sweep, otherVars>>

\* The marker has changed and the retries are used up: the task fails.
AggExhausted ==
    /\ agg.pc = "scanned"
    /\ ~AggUnchanged
    /\ agg.retries >= MaxRetries
    /\ agg' = [NoAgg EXCEPT !.pc = "failed"]
    /\ UNCHANGED <<dbVars, contentVars, clientVars, queue, sweep, otherVars>>

(***************************************************************************)
(* SpecAgg: one client changes the draft while the version sweep, the      *)
(* version tasks and one aggregation pass run.                             *)
(***************************************************************************)
AggRequests ==
    { Request(OkMetadata(PathA), "B2", NoneV),
      Request(OkMetadata(PathC), "B2", NoneV) }

\* The draft holds asset 1 and is PENDING: its summary is yet to be computed.
InitAgg ==
    /\ assets = << FirstAsset >>
    /\ live = [v \in Versions |-> {1}]
    /\ pathIndex = [v \in Versions |-> add_asset(EmptyIndex, 1, FirstAsset)]
    /\ pc = [c \in Clients |-> "idle"]
    /\ loc = [c \in Clients |-> NoLoc]
    /\ resp = [c \in Clients |-> 0]
    /\ queue = <<>>
    /\ sweep = NoSweep
    /\ agg = NoAgg
    /\ OtherIdle
    /\ sha256 = [b \in AssetBlobIds \cup EmbargoedBlobIds |-> TRUE]
    /\ zarr = [z \in ZarrIds |-> ZarrComplete]
    /\ versions = [v \in Versions |->
                     IF v = Draft
                     THEN VersionRow("Pending", NoErrors,
                                     VersionMetadata(SchemaVersion, TRUE, Summary(0, 0)), 0)
                     ELSE FirstVersionRow]

\* The client of SpecAgg stops after MaxAggModified modifications.
AggCanStart == versions[Draft].modified < MaxAggModified

NextAgg ==
    \/ \E data \in AggRequests : AggCanStart /\ StartCreate(1, Draft, data)
    \/ \E id \in AssetIds : AggCanStart /\ StartUpdate(1, Draft, id)
    \/ \E data \in AggRequests : UpdateReadVersion(1, data)
    \/ \E id \in AssetIds : AggCanStart /\ StartDestroy(1, Draft, id)
    \/ Step(1)
    \/ VersionSweepCount
    \/ VersionSweepIterate
    \/ VersionSweepDispatch
    \/ \E i \in 1..MaxVersionQueue : RunValidateVersion(i)
    \/ \E i \in 1..MaxVersionQueue : RunWriteManifest(i)
    \/ \E i \in 1..MaxVersionQueue : AggStart(i)
    \/ AggScan
    \/ AggWrite
    \/ AggReject
    \/ AggRetry
    \/ AggExhausted

SpecAgg == InitAgg /\ [][NextAgg]_vars

\* SpecVersionSweep: as SpecAgg, with the row of the published version
\* PENDING as well (the status column of a Version row is PENDING until a
\* validation has run), so that the sweep's filter on version = 'draft'
\* decides what is dispatched.
InitVersionSweep ==
    /\ assets = << FirstAsset >>
    /\ live = [v \in Versions |-> {1}]
    /\ pathIndex = [v \in Versions |-> add_asset(EmptyIndex, 1, FirstAsset)]
    /\ pc = [c \in Clients |-> "idle"]
    /\ loc = [c \in Clients |-> NoLoc]
    /\ resp = [c \in Clients |-> 0]
    /\ queue = <<>>
    /\ sweep = NoSweep
    /\ agg = NoAgg
    /\ OtherIdle
    /\ sha256 = [b \in AssetBlobIds \cup EmbargoedBlobIds |-> TRUE]
    /\ zarr = [z \in ZarrIds |-> ZarrComplete]
    /\ versions = [v \in Versions |->
                     IF v = Draft
                     THEN VersionRow("Pending", NoErrors,
                                     VersionMetadata(SchemaVersion, TRUE, Summary(0, 0)), 0)
                     ELSE [FirstVersionRow EXCEPT !.status = "Pending"]]

SpecVersionSweep == InitVersionSweep /\ [][NextAgg]_vars

\* C6: an aggregation pass never overwrites the metadata of the version with
\* a summary computed from a superseded asset set: when an asset mutation
\* has committed since the pass began, the write is rejected, so the summary
\* a pass writes is the summary of the assets live at the time of the write.
C6_NoStaleSummaryWritten ==
    [][ (agg.pc = "scanned" /\ agg'.pc = "idle")
        => versions'[agg.version].metadata.assetsSummary =
             Summary(Cardinality(live[agg.version]), SumSizes(live[agg.version]))
      ]_vars

(***************************************************************************)
(* Further properties of the sequential handlers (SpecSeq).                *)
(***************************************************************************)
\* C11: an update of an asset of the draft whose request is well formed is
\* answered 409 exactly when a live asset of the draft other than the one
\* being replaced has the new path; an update that keeps the path of the
\* asset it replaces is never answered 409.
C11_UpdateDuplicatePath ==
    (/\ pc[1] = "done" /\ loc[1].op = "update" /\ loc[1].ver = Draft
     /\ loc[1].new # NoAsset)
    => LET new == loc[1].new
           dup == \E id \in live[Draft] \ {loc[1].old, loc[1].id} :
                     assets[id].path = new.path
       IN /\ dup <=> resp[1] = 409
          /\ resp[1] = 409 => (loc[1].id = 0 /\ loc[1].old \in live[Draft])
          /\ new.path = assets[loc[1].old].path => resp[1] # 409

\* C12: the step that commits a changing update stores exactly one new Asset
\* row, whose previous is the old asset; the new asset is live in the
\* version, the old one is not, the old row is kept as it was, and the
\* number of live assets of the version is unchanged; the rest of the
\* handler stores no further row and leaves the live set alone.
C12_UpdateReplacesOne ==
    [][ /\ (pc[1] = "u_txn" /\ pc'[1] = "u_vsave")
           => LET id == loc'[1].id
                  old == loc[1].old
              IN /\ Len(assets') = Len(assets) + 1
                 /\ id = Len(assets')
                 /\ assets'[id].previous = old
                 /\ id \in live'[Draft]
                 /\ old \notin live'[Draft]
                 /\ assets'[old] = assets[old]
                 /\ Cardinality(live'[Draft]) = Cardinality(live[Draft])
        /\ (pc[1] \in {"u_version", "u_check", "u_vsave", "u_validate"})
           => (Len(assets') = Len(assets) /\ live' = live)
      ]_vars

\* A changing update has returned 200: its new asset is live, the asset it
\* replaced is not, and the draft holds another asset beside it.
C12_Witness ==
    /\ pc[1] = "done" /\ loc[1].op = "update" /\ resp[1] = 200
    /\ loc[1].id \in live[Draft]
    /\ assets[loc[1].id].previous = loc[1].old
    /\ loc[1].old \notin live[Draft]
    /\ Cardinality(live[Draft]) = 2

(***************************************************************************)
(* Further properties of the concurrent handlers (Spec).                   *)
(***************************************************************************)
\* What a validation never rewrites in an Asset row.
Persisted(a) == [a EXCEPT !.status = "Pending", !.validation_errors = NoErrors]

\* C13: no step of create, update or destroy removes an Asset row or changes
\* the previous link or the content of an existing row; the previous link
\* of every row names an earlier row, so the chain of predecessors of every
\* asset stays in the table; destroy changes the live set of the version
\* only.
C13_RecordsAndLinksKept ==
    [][ /\ Len(assets') >= Len(assets)
        /\ \A id \in 1..Len(assets) : Persisted(assets'[id]) = Persisted(assets[id])
        /\ \A id \in 1..Len(assets') : assets'[id].previous \in 0..(id - 1)
        /\ \A c \in Clients :
             (pc[c] = "d_remove" /\ pc'[c] = "d_paths")
             => /\ assets' = assets
                /\ live'[Draft] = live[Draft] \ {loc[c].old}
      ]_vars

\* A destroy has removed a successor from the draft: neither it nor the
\* asset it replaced is live, and both rows are in the table, linked.
C13_Witness ==
    /\ pc[1] = "done" /\ loc[1].op = "destroy" /\ resp[1] = 204
    /\ loc[1].old \notin live[Draft]
    /\ assets[loc[1].old].previous # 0
    /\ assets[loc[1].old].previous \notin live[Draft]
    /\ assets[assets[loc[1].old].previous].path # <<>>

(***************************************************************************)
(* Properties of the handlers beside the version sweep (SpecAgg).          *)
(***************************************************************************)
\* C14: the version.save() of every create, update and destroy leaves the
\* draft with status PENDING, which is what the version sweep selects, and
\* with an advanced modified marker, whatever the status was before; and
\* every request answered 200 or 204 has gone through it: the marker is
\* past the one the handler read when it started.
C14_SuccessMarksVersionPending ==
    [][ /\ (pc[1] \in {"c_vsave", "u_vsave", "d_vsave"} /\ pc'[1] # pc[1])
           => /\ versions'[Draft].status = "Pending"
              /\ versions'[Draft].modified > versions[Draft].modified
        /\ (pc[1] # "done" /\ pc'[1] = "done" /\ resp'[1] \in {200, 204})
           => versions'[Draft].modified > loc'[1].version.modified
      ]_vars

\* An update has saved the draft, which was VALID when the handler read it:
\* the draft is PENDING again with a later marker.
C14_Witness ==
    /\ pc[1] = "u_validate"
    /\ loc[1].version.status = "Valid"
    /\ versions[Draft].status = "Pending"
    /\ versions[Draft].modified > loc[1].version.modified

(***************************************************************************)
(* Inline validation and the steps between commits (SpecSeq).              *)
(***************************************************************************)
\* C15: when a create or update is answered 200 and the content of the asset
\* it returns is fully processed (blob or embargoed blob with a digest, zarr
\* COMPLETE with a checksum), the asset has been validated: its status is
\* VALID or INVALID, not PENDING.
C15_ReadyAssetValidatedInline ==
    (/\ pc[1] = "done" /\ resp[1] = 200
     /\ loc[1].op \in {"create", "update"}
     /\ ContentReady(assets[loc[1].id]))
    => assets[loc[1].id].status # "Pending"

\* C17: in every state a reader can observe, also between the commits of a
\* handler, the leaves and directory nodes of the path index of every
\* version are those of its live assets.
C17_IndexAlwaysMatchesLive == \A v \in Versions : IndexMatches(v)

(***************************************************************************)
(* SpecSweepFair: SpecSweep with the scheduling the deployment provides.   *)
(* celery beat starts validate_pending_asset_metadata periodically         *)
(* (register_scheduled_tasks), a started sweep runs to its end, the worker *)
(* takes every queued task, and a started request handler returns.         *)
(***************************************************************************)
SpecSweepFair ==
    /\ SpecSweep
    /\ WF_vars(SweepStart)
    /\ WF_vars(SweepDispatch)
    /\ WF_vars(SweepSleep)
    /\ WF_vars(\E i \in 1..MaxQueue : RunValidateAsset(i))
    /\ WF_vars(\E data \in SweepRequests : UpdateReadVersion(1, data))
    /\ WF_vars(Step(1))

\* The ids an Asset row can have in SpecSweep.
SweepAssetIds == 1..(MaxSweepModified + 1)

\* validate_asset_metadata_task for asset id is on the queue.
Dispatched(id) ==
    \E i \in 1..Len(queue) :
        queue[i].task = "validate_asset_metadata" /\ queue[i].arg = id

\* C16: under the fair periodic sweep, every asset that is PENDING and whose
\* content is ready (blob with a digest, embargoed blob with a digest, zarr
\* COMPLETE with a checksum) is eventually dispatched for validation or is
\* no longer PENDING.
C16_ReadyPendingEventuallyDispatched ==
    \A id \in SweepAssetIds :
        (id \in AssetIds /\ assets[id].status = "Pending" /\ ContentReady(assets[id]))
        ~> (id \in AssetIds /\ (Dispatched(id) \/ assets[id].status # "Pending"))

(***************************************************************************)
(* Requests the handlers refuse (SpecSeq).                                 *)
(***************************************************************************)
\* The step answers 400 with the given ValidationError and stores nothing.
Refused(error) ==
    /\ pc'[1] = "done"
    /\ resp'[1] = 400
    /\ loc'[1].error = error
    /\ loc'[1].id = 0
    /\ UNCHANGED dbVars

ExactlyOneContent(a) ==
    Cardinality({k \in {"blob", "embargoed_blob", "zarr"} : a[k] # NoneV}) = 1

\* C18: every Asset row has exactly one of blob, embargoed_blob and zarr
\* set; a create or update on the draft whose request carries neither
\* blob_id nor zarr_id, or both, is answered 400 (ContentRefConflict) and
\* stores no row.
C18_ExactlyOneContentReference ==
    [][ /\ \A id \in 1..Len(assets') : ExactlyOneContent(assets'[id])
        /\ (pc[1] = "idle" \/ (pc[1] = "u_version" /\ loc[1].ver = Draft))
           => \A data \in Requests :
                (\/ (data.blob_id = NoneV /\ data.zarr_id = NoneV)
                 \/ (data.blob_id # NoneV /\ data.zarr_id # NoneV))
                => \/ Refused("ContentRefConflict")
                   \/ /\ ~StartCreate(1, Draft, data)
                      /\ ~UpdateReadVersion(1, data)
      ]_vars

\* A request was refused for its content references while the table holds
\* rows of all three kinds of content.
C18_Witness ==
    /\ pc[1] = "done" /\ resp[1] = 400 /\ loc[1].error = "ContentRefConflict"
    /\ \E id \in AssetIds : is_blob(assets[id])
    /\ \E id \in AssetIds : is_embargoed_blob(assets[id])
    /\ \E id \in AssetIds : is_zarr(assets[id])

\* The zarr archive of asset a belongs to another dandiset than version v.
CrossDandiset(a, v) == is_zarr(a) /\ ZarrDandiset(a.zarr) # VersionDandiset(v)

\* C19: a create on the draft whose zarr archive belongs to another dandiset
\* fails: with 400 (CrossDandisetZarr) unless the path is taken, which is
\* reported first as 409; no asset is stored or attached, and no row that a
\* create stored refers to a zarr archive of another dandiset.
C19_CreateCrossDandisetZarr ==
    /\ (/\ pc[1] = "done" /\ loc[1].op = "create" /\ loc[1].ver = Draft
        /\ loc[1].new # NoAsset /\ CrossDandiset(loc[1].new, Draft))
       => /\ resp[1] \in {400, 409}
          /\ resp[1] = 409 <=> PathExists(Draft, loc[1].new.path)
          /\ resp[1] = 400 => loc[1].error = "CrossDandisetZarr"
          /\ loc[1].id = 0
    /\ \A id \in AssetIds :
         assets[id].previous = 0 => ~CrossDandiset(assets[id], Draft)

\* A create with the zarr archive of the other dandiset was refused at a
\* free path, after the draft had been modified.
C19_Witness ==
    /\ pc[1] = "done" /\ loc[1].op = "create" /\ resp[1] = 400
    /\ loc[1].error = "CrossDandisetZarr"
    /\ loc[1].new.zarr = "Z2"
    /\ ~PathExists(Draft, loc[1].new.path)
    /\ versions[Draft].modified > 0

\* C20: a create or update on the draft whose metadata has no path or an
\* empty path, or a path that does not match the pattern, is answered 400
\* and stores nothing; every asset live in a version has a non-empty path
\* that matches the pattern.
C20_InvalidPathRejected ==
    [][ /\ \A v \in Versions : \A id \in live'[v] :
             assets'[id].path # <<>> /\ PathMatches(assets'[id].path)
        /\ (pc[1] = "idle" \/ (pc[1] = "u_version" /\ loc[1].ver = Draft))
           => \A data \in Requests :
                ((data.blob_id = NoneV) # (data.zarr_id = NoneV))
                => LET error ==
                         IF ~data.metadata.hasPath \/ data.metadata.path = <<>>
                         THEN "NoPath"
                         ELSE IF ~PathMatches(data.metadata.path) THEN "InvalidPath"
                         ELSE NoneV
                   IN error # NoneV
                      => \/ Refused(error)
                         \/ /\ ~StartCreate(1, Draft, data)
                            /\ ~UpdateReadVersion(1, data)
      ]_vars

\* An update was refused for its path after the draft had been modified.
C20_Witness ==
    /\ pc[1] = "done" /\ loc[1].op = "update" /\ resp[1] = 400
    /\ loc[1].error = "InvalidPath"
    /\ versions[Draft].modified > 0
    /\ \E id \in live[Draft] : id > 1

(***************************************************************************)
(* Refused requests and the database (SpecSeq).                            *)
(***************************************************************************)
\* The codes of a create or update refused for a structural reason.
RejectCodes == {400, 404, 405, 409}

\* C21: a create or update that ends refused (405 non-draft version, 400
\* conflicting content references, missing or invalid path or cross-dandiset
\* zarr, 404 unknown content reference, 409 duplicate path) has changed no
\* Asset row, no live set, no path index and no version row: the step that
\* refuses it and every step of the request before it leave them untouched.
C21_RejectedRequestChangesNothing ==
    [][ /\ pc'[1] \in {"c_check", "u_version", "u_check"} => UNCHANGED dbVars
        /\ (/\ pc[1] # "done" /\ pc'[1] = "done"
            /\ loc'[1].op \in {"create", "update"}
            /\ resp'[1] \in RejectCodes)
           => /\ UNCHANGED dbVars
              /\ pc[1] \in {"idle", "c_check", "u_version", "u_check"}
      ]_vars

\* Every kind of refusal has happened: this one is a create refused for an
\* unknown content reference after the draft had been modified.
C21_Witness ==
    /\ pc[1] = "done" /\ loc[1].op = "create" /\ resp[1] = 404
    /\ versions[Draft].modified > 0
    /\ Len(assets) > 1

(***************************************************************************)
(* The retries of an aggregation pass (SpecAgg).                           *)
(***************************************************************************)
AggInFlight == agg.pc \notin {"idle", "failed"}

\* The number of steps an aggregation pass in state a can still take.
AggRank(a) ==
    IF a.pc \in {"idle", "failed"} THEN 0
    ELSE 3 * (MaxRetries - a.retries)
         + (CASE a.pc = "read" -> 2 [] a.pc = "scanned" -> 1 [] a.pc = "backoff" -> 3)

\* C22: an aggregation pass whose write keeps being rejected is retried at
\* most MaxRetries times: a pass in flight can always take a step, every
\* step of it lowers the number of steps it has left, a rejection with the
\* budget used up ends the pass as failed, and a failed pass runs again only
\* when a worker takes a new task from the queue.
C22_RetriesAreBounded ==
    [][ /\ agg'.retries <= MaxRetries
        /\ AggInFlight
           => /\ ENABLED (AggScan \/ AggWrite \/ AggReject \/ AggRetry \/ AggExhausted)
              /\ agg' # agg => (AggRank(agg') >= 0 /\ AggRank(agg') < AggRank(agg))
        /\ (agg.pc = "scanned" /\ ~AggUnchanged /\ agg.retries >= MaxRetries /\ agg' # agg)
           => (agg'.pc = "failed" /\ UNCHANGED <<dbVars, queue>>)
        /\ (agg.pc = "failed" /\ agg' # agg)
           => (agg'.pc = "read" /\ agg'.retries = 0 /\ Len(queue') = Len(queue) - 1)
      ]_vars

\* A pass has failed with its retries used up: the draft was modified during
\* every attempt.
C22_Witness ==
    /\ agg.pc = "failed"
    /\ versions[Draft].modified >= MaxRetries + 1

(***************************************************************************)
(* Running a validation task again (SpecTask).                             *)
(***************************************************************************)
\* C23: validate_asset_metadata and validate_version_metadata are
\* idempotent: in the state a run of the task leaves, with the record and
\* its content as they are, another run of the same task would write the
\* same status and the same list of validation errors, so two runs in a row
\* leave what one run leaves.
C23_ValidationIsIdempotent ==
    [][ \A i \in 1..Len(queue) :
          queue' = RemoveAt(queue, i)
          => /\ queue[i].task = "validate_asset_metadata"
                => \A id \in AssetIds :
                     queue[i].arg = id => validate_asset_metadata(id)' = assets'
             /\ queue[i].task = "validate_version_metadata"
                => \A v \in Versions :
                     queue[i].arg = VersionId(v)
                     => validate_version_metadata(VersionId(v))' = versions'
      ]_vars

\* The asset task has run twice and the version task never: the asset is
\* INVALID with the one violation of its metadata.
C23_Witness ==
    /\ queue = <<>>
    /\ versions[Draft].status = "Pending"
    /\ assets[1].status = "Invalid"
    /\ assets[1].validation_errors = << Error("encodingFormat", "field required") >>

(***************************************************************************)
(* The validation status of assets and versions (SpecSweep).               *)
(***************************************************************************)
\* The request of client c has changed the set of live assets of version v.
AssetSetChangedBy(c, v) ==
    /\ loc[c].ver = v
    /\ \/ loc[c].op = "create" /\ pc[c] = "c_vsave" /\ loc[c].id \in live[v]
       \/ /\ loc[c].op = "update" /\ pc[c] = "u_vsave"
          /\ loc[c].id # loc[c].old /\ loc[c].id \in live[v] /\ loc[c].old \notin live[v]
       \/ loc[c].op = "destroy" /\ pc[c] = "d_vsave" /\ loc[c].old \notin live[v]

\* The step validates asset id: a worker runs the task for it, or create or
\* update validates the asset it has stored.
ValidatesAsset(id) ==
    /\ assets' = validate_asset_metadata(id)
    /\ \/ \E i \in 1..Len(queue) :
            /\ queue[i] = Message("validate_asset_metadata", id)
            /\ queue' = RemoveAt(queue, i)
       \/ \E c \in Clients : pc[c] \in {"c_validate", "u_validate"} /\ loc[c].id = id

\* C24: the status goes PENDING -> VALID | INVALID: every Asset row is
\* stored as PENDING with no validation errors; the status of an asset
\* changes only from PENDING, to VALID or INVALID, in a step that validates
\* the asset; and a version that is VALID or INVALID becomes PENDING only in
\* the version.save() of a request that has changed its set of live assets.
C24_StatusStateMachine ==
    [][ /\ \A id \in 1..Len(assets') :
             id > Len(assets)
             => (assets'[id].status = "Pending" /\ assets'[id].validation_errors = NoErrors)
        /\ \A id \in AssetIds :
             assets'[id].status # assets[id].status
             => /\ assets[id].status = "Pending"
                /\ assets'[id].status \in {"Valid", "Invalid"}
                /\ ValidatesAsset(id)
        /\ \A v \in Versions :
             (versions[v].status # "Pending" /\ versions'[v].status = "Pending")
             => \E c \in Clients : AssetSetChangedBy(c, v)
      ]_vars

\* One stored asset has been validated and found INVALID, another is still
\* PENDING, and the draft, which was VALID, has become PENDING.
C24_Witness ==
    /\ \E id \in AssetIds : id > 1 /\ assets[id].status = "Invalid"
    /\ \E id \in AssetIds : id > 1 /\ assets[id].status = "Pending"
    /\ versions[Draft].status = "Pending"
    /\ versions[Published].status = "Valid"

(***************************************************************************)
(* What the asset sweep dispatches (SpecSweep).                            *)
(***************************************************************************)
\* The step puts validate_asset_metadata_task(id) on the queue.
SweepDispatches(id) ==
    /\ sweep.pc = "dispatch"
    /\ queue' = Append(queue, Message("validate_asset_metadata", id))

\* The content the sweep asks for: a blob with a digest, or a zarr archive
\* that is COMPLETE and has a checksum.
SweepContentReady(a) ==
    \/ is_blob(a) /\ sha256[a.blob]
    \/ is_zarr(a) /\ zarr[a.zarr].status = "Complete" /\ zarr[a.zarr].checksum

\* C25, as claimed: when the sweep dispatches the task for an asset, the
\* asset is PENDING and its blob has a digest or its zarr archive is
\* COMPLETE with a checksum.
C25_SweepDispatchesOnlyPendingReady ==
    [][ \A id \in AssetIds :
          SweepDispatches(id)
          => (assets[id].status = "Pending" /\ SweepContentReady(assets[id]))
      ]_vars

\* C25, amended: the assets a sweep selects are exactly those that are
\* PENDING with ready content when its query runs, and it dispatches the
\* task only for assets it has selected and not yet dispatched; an asset
\* may have been validated between the query and its dispatch.
C25_SweepDispatchesSelectedReady ==
    [][ /\ (sweep.pc = "idle" /\ sweep' # sweep)
           => sweep'.todo = {id \in AssetIds :
                               assets[id].status = "Pending" /\ SweepContentReady(assets[id])}
        /\ sweep.pc # "idle" => sweep'.todo \subseteq sweep.todo
        /\ \A id \in AssetIds :
             SweepDispatches(id)
             => (id \in sweep.todo /\ id \notin sweep'.todo)
      ]_vars

\* The task has been dispatched for a zarr asset whose archive completed
\* after the asset was stored, while a blob asset without digest waits.
C25_Witness ==
    \E id \in AssetIds :
      /\ is_zarr(assets[id]) /\ assets[id].zarr = "Z1"
      /\ Dispatched(id)
      /\ \E other \in AssetIds :
           is_blob(assets[other]) /\ ~sha256[assets[other].blob]

(***************************************************************************)
(* The rate of the dispatches of the sweeps (SpecAgg).                     *)
(***************************************************************************)
\* C30: the sweeps dispatch one task at a time with a pause after each: a
\* step that puts work on the queue adds a single message and leaves the
\* sweep that dispatched it in the sleep of throttled_iterator.
C30_DispatchIsThrottled ==
    [][ Len(queue') > Len(queue)
        => /\ Len(queue') = Len(queue) + 1
           /\ sweep' # sweep => sweep'.pc = "sleep"
           /\ vsweep' # vsweep => vsweep'.pc = "sleep"
      ]_vars

(***************************************************************************)
(* Upload validation: POST /api/uploads/validate/ with a claimed sha256    *)
(* and, optionally, the key of the uploaded object (tests/test_validate.py *)
(* and the boundary operations of the specification).  A Validation row    *)
(* holds the digest, the object key (blob) and the state.                  *)
(***************************************************************************)
ObjectKeys == {"test.txt", "other.txt"}
Sha256Digests == {"d1", "d2"}
WrongSha256 == "wrong-sha256"
ValidationStates == {"IN_PROGRESS", "SUCCEEDED", "FAILED"}

Validation(blob, digest, state) == [blob |-> blob, sha256 |-> digest, state |-> state]

\* Validation.objects.filter(sha256=digest): the indices of the rows.
ValidationsOf(digest) ==
    {i \in 1..Len(validations) : validations[i].sha256 = digest}

\* A validation request: object_key is NoneV when the key is absent.
UploadRequests ==
    [object_key : ObjectKeys \cup {NoneV}, sha256 : Sha256Digests \cup {WrongSha256}]

\* The response, kept with the request it answers.
Respond(data, code, detail) ==
    uploadResp' = [code |-> code, detail |-> detail, data |-> data]

\* Mutant: a request for a digest under validation restarts the validation.
UploadValidate_NoProgressCheck(data) ==
    /\ IF data.object_key # NoneV /\ data.sha256 \notin Sha256Digests
       THEN Respond(data, 400, "Invalid sha256.") /\ UNCHANGED validations
       ELSE IF data.object_key # NoneV /\ data.object_key \notin storage
       THEN Respond(data, 400, "Object does not exist.") /\ UNCHANGED validations
       ELSE IF ValidationsOf(data.sha256) = {}
       THEN IF data.object_key = NoneV
            THEN /\ Respond(data, 400, "A validation for an object with that checksum does not exist.")
                 /\ UNCHANGED validations
            ELSE /\ validations' = Append(validations,
                                          Validation(data.object_key, data.sha256, "IN_PROGRESS"))
                 /\ Respond(data, 204, NoneV)
       ELSE LET i == CHOOSE j \in ValidationsOf(data.sha256) : TRUE
            IN /\ validations' = [validations EXCEPT ![i].state = "IN_PROGRESS"]
               /\ Respond(data, 204, NoneV)
    /\ UNCHANGED <<dbVars, contentVars, clientVars, taskVars, storage, zarrUploadVars, listing, vsweep>>

\* Mutant: a reused validation takes the object key of the request.
UploadValidate_ReplacesKey(data) ==
    /\ IF data.object_key # NoneV /\ data.sha256 \notin Sha256Digests
       THEN Respond(data, 400, "Invalid sha256.") /\ UNCHANGED validations
       ELSE IF data.object_key # NoneV /\ data.object_key \notin storage
       THEN Respond(data, 400, "Object does not exist.") /\ UNCHANGED validations
       ELSE IF ValidationsOf(data.sha256) = {}
       THEN IF data.object_key = NoneV
            THEN /\ Respond(data, 400, "A validation for an object with that checksum does not exist.")
                 /\ UNCHANGED validations
            ELSE /\ validations' = Append(validations,
                                          Validation(data.object_key, data.sha256, "IN_PROGRESS"))
                 /\ Respond(data, 204, NoneV)
       ELSE LET i == CHOOSE j \in ValidationsOf(data.sha256) : TRUE
            IN IF validations[i].state = "IN_PROGRESS"
               THEN Respond(data, 400, "Validation already in progress.") /\ UNCHANGED validations
               ELSE /\ validations' = [validations EXCEPT ![i].state = "IN_PROGRESS",
                                                          ![i].blob = data.object_key]
                    /\ Respond(data, 204, NoneV)
    /\ UNCHANGED <<dbVars, contentVars, clientVars, taskVars, storage, zarrUploadVars, listing, vsweep>>

\* upload-validate: the request fails if the digest is malformed, if the
\* object named does not exist, if no key is given and the digest has no
\* validation, or if the validation of the digest is in progress; otherwise
\* the validation of the digest is created, or reused, as IN_PROGRESS.
UploadValidate(data) ==
    /\ IF data.object_key # NoneV /\ data.sha256 \notin Sha256Digests
       THEN Respond(data, 400, "Invalid sha256.") /\ UNCHANGED validations
       ELSE IF data.object_key # NoneV /\ data.object_key \notin storage
       THEN Respond(data, 400, "Object does not exist.") /\ UNCHANGED validations
       ELSE IF ValidationsOf(data.sha256) = {}
       THEN IF data.object_key = NoneV
            THEN /\ Respond(data, 400, "A validation for an object with that checksum does not exist.")
                 /\ UNCHANGED validations
            ELSE /\ validations' = Append(validations,
                                          Validation(data.object_key, data.sha256, "IN_PROGRESS"))
                 /\ Respond(data, 204, NoneV)
       ELSE LET i == CHOOSE j \in ValidationsOf(data.sha256) : TRUE
            IN IF validations[i].state = "IN_PROGRESS"
               THEN Respond(data, 400, "Validation already in progress.") /\ UNCHANGED validations
               ELSE /\ validations' = [validations EXCEPT ![i].state = "IN_PROGRESS"]
                    /\ Respond(data, 204, NoneV)
    /\ UNCHANGED <<dbVars, contentVars, clientVars, taskVars, storage, zarrUploadVars, listing, vsweep>>

\* The client uploads an object: storage.save(object_key, contents).
StorageSave(key) ==
    /\ key \notin storage
    /\ storage' = storage \cup {key}
    /\ UNCHANGED <<dbVars, contentVars, clientVars, taskVars, validations, uploadResp,
                   zarrUploadVars, listing, vsweep>>

\* The validation job a successful request starts: it ends the validation
\* as SUCCEEDED or FAILED.
RunValidation(i, outcome) ==
    /\ i \in 1..Len(validations)
    /\ validations[i].state = "IN_PROGRESS"
    /\ validations' = [validations EXCEPT ![i].state = outcome]
    /\ UNCHANGED <<dbVars, contentVars, clientVars, taskVars, storage, uploadResp,
                   zarrUploadVars, listing, vsweep>>

NextUpload ==
    \/ \E data \in UploadRequests : UploadValidate(data)
    \/ \E key \in ObjectKeys : StorageSave(key)
    \/ \E i \in 1..Cardinality(Sha256Digests), outcome \in {"SUCCEEDED", "FAILED"} :
          RunValidation(i, outcome)

SpecUpload == InitConcurrent /\ [][NextUpload]_vars

\* The validation of the digest is in progress.
InProgress(digest) ==
    \E i \in ValidationsOf(digest) : validations[i].state = "IN_PROGRESS"

\* C26: a validation request for a digest whose validation is IN_PROGRESS
\* is refused with 400 and leaves the Validation rows as they were; when the
\* object it names exists, or it names none, the detail is 'Validation
\* already in progress.'; and no two rows ever have the same digest.
C26_InProgressIsRefused ==
    [][ /\ \A i, j \in 1..Len(validations') :
             validations'[i].sha256 = validations'[j].sha256 => i = j
        /\ \A data \in UploadRequests :
             (InProgress(data.sha256) /\ UploadValidate(data))
             => /\ uploadResp'.code = 400
                /\ UNCHANGED validations
                /\ (data.object_key = NoneV \/ data.object_key \in storage)
                   => uploadResp'.detail = "Validation already in progress."
      ]_vars

\* A request naming an existing object has been refused because the
\* validation of its digest is in progress, while another digest has a
\* finished validation.
C26_Witness ==
    /\ uploadResp.code = 400
    /\ uploadResp.detail = "Validation already in progress."
    /\ uploadResp.data.object_key \in storage
    /\ InProgress(uploadResp.data.sha256)
    /\ Len(validations) = 2
    /\ \E i \in 1..Len(validations) : validations[i].state = "SUCCEEDED"

\* C27: a validation request for a digest whose validation is SUCCEEDED or
\* FAILED, naming an existing object or none, is answered 204 and moves
\* that row to IN_PROGRESS, keeping its object key and storing no row; a
\* request naming an existing object for a digest without validation is
\* answered 204 and stores one row, IN_PROGRESS, with that key and digest.
C27_ReuseOrCreate ==
    [][ \A data \in UploadRequests :
          ((data.object_key = NoneV \/ data.object_key \in storage)
           /\ UploadValidate(data))
          => /\ \A i \in ValidationsOf(data.sha256) :
                  validations[i].state \in {"SUCCEEDED", "FAILED"}
                  => /\ uploadResp'.code = 204
                     /\ validations' = [validations EXCEPT ![i].state = "IN_PROGRESS"]
                     /\ validations'[i].blob = validations[i].blob
             /\ (ValidationsOf(data.sha256) = {} /\ data.object_key # NoneV
                 /\ data.sha256 \in Sha256Digests)
                => /\ uploadResp'.code = 204
                   /\ validations' =
                        Append(validations,
                               Validation(data.object_key, data.sha256, "IN_PROGRESS"))
      ]_vars

\* A request without object key has put a finished validation back to
\* IN_PROGRESS; its row still names the object it was created for, and
\* the other object exists as well.
C27_Witness ==
    /\ uploadResp.code = 204
    /\ uploadResp.data.object_key = NoneV
    /\ storage = ObjectKeys
    /\ \E i \in ValidationsOf(uploadResp.data.sha256) :
         validations[i].state = "IN_PROGRESS" /\ validations[i].blob = "other.txt"

(***************************************************************************)
(* The paths request: GET .../assets/paths/?path_prefix=...  The view      *)
(* (asset.py 494-528) answers with the rows search_path returns, or with   *)
(* 'Specified path not found.' when it returns None.  search_path reads    *)
(* the path index: the directory nodes and the leaves directly under the   *)
(* prefix, ordered by path.                                                *)
(***************************************************************************)
\* The names of files and directories, in lexicographic order.
Names == << "a.nwb", "b.nwb", "c.nwb", "nope", "sub" >>

NameRank(name) == CHOOSE i \in 1..Len(Names) : Names[i] = name

\* The directory prefixes a client asks for: the root, sub/ and nope/.
Prefixes == { <<>>, <<"sub">>, <<"nope">> }

PathRow(name, isLeaf, files, size) ==
    [name |-> name, isLeaf |-> isLeaf, fileCount |-> files, totalSize |-> size]

\* The rows of a set, ordered by name.
RECURSIVE OrderByPath(_)
OrderByPath(rows) ==
    IF rows = {} THEN <<>>
    ELSE LET first == CHOOSE r \in rows :
                        \A q \in rows : NameRank(r.name) <= NameRank(q.name)
         IN << first >> \o OrderByPath(rows \ {first})

\* p is prefix followed by exactly one more segment.
IsChild(p, prefix) ==
    Len(p) = Len(prefix) + 1 /\ SubSeq(p, 1, Len(prefix)) = prefix

\* TRUE when search_path finds no node for the prefix and returns None.
search_path_None(prefix, v) ==
    prefix # <<>> /\ (prefix \notin Dirs \/ pathIndex[v].nodes[prefix].files = 0)

\* search_path(path, version): the direct children of the prefix.
search_path(prefix, v) ==
    LET index == pathIndex[v]
        dirs == { PathRow(d[Len(d)], FALSE, index.nodes[d].files, index.nodes[d].size) :
                    d \in {x \in Dirs : IsChild(x, prefix) /\ index.nodes[x].files > 0} }
        files == { PathRow(assets[id].path[Len(assets[id].path)], TRUE, 1,
                           AssetSize(assets[id])) :
                     id \in {x \in index.leaves : IsChild(assets[x].path, prefix)} }
    IN OrderByPath(dirs \cup files)

\* Mutant: a prefix without node is answered with an empty page.
Paths_NoNotFound(v, prefix) ==
    /\ listing' = [code |-> 200, version |-> v, prefix |-> prefix,
                   children |-> IF search_path_None(prefix, v) THEN <<>>
                                ELSE search_path(prefix, v)]
    /\ UNCHANGED <<dbVars, contentVars, clientVars, taskVars, uploadVars, zarrUploadVars,
                   vsweep>>

\* paths, lines 516-528.
Paths(v, prefix) ==
    /\ listing' = IF search_path_None(prefix, v)
                  THEN [code |-> 400, version |-> v, prefix |-> prefix, children |-> <<>>]
                  ELSE [code |-> 200, version |-> v, prefix |-> prefix,
                        children |-> search_path(prefix, v)]
    /\ UNCHANGED <<dbVars, contentVars, clientVars, taskVars, uploadVars, zarrUploadVars,
                   vsweep>>

\* The assets the client of SpecPaths stores: sub/a.nwb of 100 bytes,
\* sub/b.nwb of 50 bytes.
PathsRequests ==
    { Request(OkMetadata(PathA), "B1", NoneV),
      Request(OkMetadata(PathB), "B2", NoneV) }

NextPaths ==
    \/ \E data \in PathsRequests : StartCreate(1, Draft, data)
    \/ \E id \in AssetIds : StartUpdate(1, Draft, id)
    \/ \E data \in PathsRequests : UpdateReadVersion(1, data)
    \/ \E id \in AssetIds : StartDestroy(1, Draft, id)
    \/ Step(1)
    \/ \E v \in Versions, prefix \in Prefixes : Paths(v, prefix)

SpecPaths == InitConcurrent /\ [][NextPaths]_vars

\* The live assets of version v below the directory prefix.
LiveBelow(v, prefix) ==
    {id \in live[v] : /\ Len(assets[id].path) > Len(prefix)
                       /\ SubSeq(assets[id].path, 1, Len(prefix)) = prefix}

\* C28: between requests, the paths response for a directory prefix lists
\* exactly the immediate children the live assets have under the prefix,
\* a file as a leaf with its size and a directory with the number and the
\* total size of the files of its whole subtree, ordered by name; a prefix
\* with no live asset below it, other than the root, is answered 'not
\* found'.
C28_ChildrenOfPrefix ==
    [][ (listing' # listing /\ Completed(1))
        => LET v == listing'.version
               prefix == listing'.prefix
               below == LiveBelow(v, prefix)
               rows == listing'.children
               Below(name) == {id \in below : assets[id].path[Len(prefix) + 1] = name}
           IN IF prefix # <<>> /\ below = {}
              THEN listing'.code = 400 /\ rows = <<>>
              ELSE /\ listing'.code = 200
                   /\ {rows[i].name : i \in 1..Len(rows)}
                        = {assets[id].path[Len(prefix) + 1] : id \in below}
                   /\ \A i, j \in 1..Len(rows) :
                        i < j => NameRank(rows[i].name) < NameRank(rows[j].name)
                   /\ \A i \in 1..Len(rows) :
                        /\ rows[i].fileCount = Cardinality(Below(rows[i].name))
                        /\ rows[i].totalSize = SumSizes(Below(rows[i].name))
                        /\ rows[i].isLeaf
                             <=> \E id \in below : assets[id].path = Append(prefix, rows[i].name)
      ]_vars

\* With sub/a.nwb (100 bytes) and sub/b.nwb (50 bytes) the only live assets
\* of the draft, the root lists the single directory sub with 2 files and
\* 150 bytes.
C28_Witness ==
    /\ Completed(1)
    /\ {assets[id].path : id \in live[Draft]} = {PathA, PathB}
    /\ listing = [code |-> 200, version |-> Draft, prefix |-> <<>>,
                  children |-> << PathRow("sub", FALSE, 2, 150) >>]

(***************************************************************************)
(* Registration of the files of a zarr archive.  ZarrArchive carries the   *)
(* running totals file_count and size (migration 0020, lines 41-44); a     *)
(* registration records the file and brings the totals up to date.  The    *)
(* registrations of one archive run one at a time (the single-writer       *)
(* discipline of the specification): a registration holds the lock of the  *)
(* archive from its read of the totals to its write.                       *)
(***************************************************************************)
FileSizes == {10, 20, 30}

\* An uploader asks to register a file of the archive.
RegisterRequest(u, path, size) ==
    /\ reg[u].pc = "idle"
    /\ reg' = [reg EXCEPT ![u] = [NoReg EXCEPT !.pc = "wait", !.path = path, !.size = size]]
    /\ UNCHANGED <<dbVars, contentVars, clientVars, taskVars, uploadVars, zarrArchive,
                   listing, vsweep>>

\* Mutant: the totals are read without waiting for the lock of the archive.
RegisterBegin_NoLock(u) ==
    /\ reg[u].pc = "wait"
    /\ zarrArchive' = [zarrArchive EXCEPT !.lock = u]
    /\ reg' = [reg EXCEPT ![u].pc = "write",
                          ![u].found = zarrArchive.files[reg[u].path],
                          ![u].file_count = zarrArchive.file_count,
                          ![u].total = zarrArchive.size]
    /\ UNCHANGED <<dbVars, contentVars, clientVars, taskVars, uploadVars, listing, vsweep>>

\* The registration takes the lock of the archive and reads the record of
\* the path, if any, and the running totals.
RegisterBegin(u) ==
    /\ reg[u].pc = "wait"
    /\ zarrArchive.lock = 0
    /\ zarrArchive' = [zarrArchive EXCEPT !.lock = u]
    /\ reg' = [reg EXCEPT ![u].pc = "write",
                          ![u].found = zarrArchive.files[reg[u].path],
                          ![u].file_count = zarrArchive.file_count,
                          ![u].total = zarrArchive.size]
    /\ UNCHANGED <<dbVars, contentVars, clientVars, taskVars, uploadVars, listing, vsweep>>

\* The registration writes the record of the file and the totals: a new
\* path counts one more file, an overwritten path changes the size only.
RegisterWrite(u) ==
    /\ reg[u].pc = "write"
    /\ zarrArchive' =
         [files |-> [zarrArchive.files EXCEPT ![reg[u].path] = reg[u].size],
          file_count |-> IF reg[u].found = NoFile THEN reg[u].file_count + 1
                         ELSE reg[u].file_count,
          size |-> IF reg[u].found = NoFile THEN reg[u].total + reg[u].size
                   ELSE reg[u].total - reg[u].found + reg[u].size,
          lock |-> 0]
    /\ reg' = [reg EXCEPT ![u].pc = "done"]
    /\ UNCHANGED <<dbVars, contentVars, clientVars, taskVars, uploadVars, listing, vsweep>>

\* The uploader has its answer and may register the next file.
RegisterReturn(u) ==
    /\ reg[u].pc = "done"
    /\ reg' = [reg EXCEPT ![u] = NoReg]
    /\ UNCHANGED <<dbVars, contentVars, clientVars, taskVars, uploadVars, zarrArchive,
                   listing, vsweep>>

NextZarr ==
    \/ \E u \in Uploaders, path \in ZarrFilePaths, size \in FileSizes :
          RegisterRequest(u, path, size)
    \/ \E u \in Uploaders : RegisterBegin(u)
    \/ \E u \in Uploaders : RegisterWrite(u)
    \/ \E u \in Uploaders : RegisterReturn(u)

SpecZarr == InitConcurrent /\ [][NextZarr]_vars

RegisteredPaths(files) == {f \in ZarrFilePaths : files[f] # NoFile}

RECURSIVE SumFileSizes(_, _)
SumFileSizes(files, paths) ==
    IF paths = {} THEN 0
    ELSE LET f == CHOOSE x \in paths : TRUE
         IN files[f] + SumFileSizes(files, paths \ {f})

\* C29: however the registrations of the uploaders interleave, whenever no
\* registration is between its read and its write the file count of the
\* archive is the number of distinct registered paths and its size is the
\* sum of their current sizes; a registration that completes has recorded
\* its file with its size and has left every other file alone, and
\* overwriting a path does not change the count.
C29_TotalsMatchRegisteredFiles ==
    [][ /\ zarrArchive'.lock = 0
           => /\ zarrArchive'.file_count
                   = Cardinality(RegisteredPaths(zarrArchive'.files))
              /\ zarrArchive'.size
                   = SumFileSizes(zarrArchive'.files, RegisteredPaths(zarrArchive'.files))
        /\ \A u \in Uploaders :
             (reg[u].pc = "write" /\ reg'[u].pc = "done")
             => /\ zarrArchive'.files[reg[u].path] = reg[u].size
                /\ \A f \in ZarrFilePaths \ {reg[u].path} :
                     zarrArchive'.files[f] = zarrArchive.files[f]
                /\ zarrArchive.files[reg[u].path] # NoFile
                   => zarrArchive'.file_count = zarrArchive.file_count
      ]_vars

\* Two registrations that were in flight together have completed: one
\* stored a new path, the other overwrote a path with another size.
C29_Witness ==
    /\ reg[1].pc = "done" /\ reg[1].found = NoFile
    /\ reg[2].pc = "done" /\ reg[2].found \notin {NoFile, reg[2].size}
    /\ reg[1].path # reg[2].path
    /\ zarrArchive.lock = 0
    /\ zarrArchive.file_count = 2
    /\ zarrArchive.size = reg[1].size + reg[2].size

(***************************************************************************)
(* Identity of an asset across replacement.                                *)
(***************************************************************************)
\* The rows that replaced another row.
Successors == {id \in AssetIds : assets[id].previous # 0}

\* C31: the successor Asset created by a changing update carries the
\* external identifier (asset_id) of the asset it replaces.
C31_SuccessorKeepsIdentifier ==
    \A id \in Successors : assets[id].asset_id = assets[assets[id].previous].asset_id

(***************************************************************************)
(* Concurrent requests on one draft.                                       *)
(***************************************************************************)
\* The live assets of a version that a create stored (no previous link).
CreatedLive(v) == {id \in live[v] : assets[id].previous = 0}

\* C32: two concurrent creates for one path never both succeed: however
\* their duplicate-path checks and their attach steps interleave, the draft
\* has at most one created live asset at each path.
C32_ConcurrentCreatesOnePath ==
    \A a, b \in CreatedLive(Draft) : assets[a].path = assets[b].path => a = b

\* No asset has been replaced twice (the race of two updates is C1's case).
ReplacedOnce ==
    \A a, b \in Successors : assets[a].previous = assets[b].previous => a = b

\* No create is between its first and its last statement.
NoCreateInFlight == \A c \in Clients : loc[c].op = "create" => Completed(c)

\* C33: however a concurrent update and destroy, or two concurrent destroys,
\* of one live asset interleave (no create is in flight), no directory node
\* of the path index has a negative file count or size, and once the
\* requests have completed the index equals the summary of the live assets
\* of the draft: the contribution of the old asset has been subtracted
\* exactly once.
C33_DetachSubtractsOnce ==
    (ReplacedOnce /\ NoCreateInFlight)
    => /\ \A d \in Dirs : /\ pathIndex[Draft].nodes[d].files >= 0
                          /\ pathIndex[Draft].nodes[d].size >= 0
       /\ (\A c \in Clients : Completed(c)) => IndexMatches(Draft)

(***************************************************************************)
(* Ownership of the zarr archives of live assets.                          *)
(***************************************************************************)
\* C34: after any sequence of creates and updates every live zarr-backed
\* asset of a version refers to a zarr archive of that version's dandiset;
\* an update that switches an asset to the zarr archive of another dandiset
\* does not make such an asset live.
C34_LiveZarrOwnedByDandiset ==
    \A v \in Versions : \A id \in live[v] : ~CrossDandiset(assets[id], v)

(***************************************************************************)
(* The version sweep and the summary of the draft (SpecAgg).               *)
(***************************************************************************)
\* An aggregation of version v is on the queue or running.
AggPending(v) ==
    \/ \E i \in 1..Len(queue) :
          queue[i] = Message("aggregate_assets_summary", VersionId(v))
    \/ agg.pc \notin {"idle", "failed"}
    \/ (vsweep.pc \in {"validate", "aggregate"} /\ v \in vsweep.todo)

\* The summary stored in the metadata of v is the summary of its live assets.
SummaryCurrent(v) ==
    versions[v].metadata.assetsSummary =
        Summary(Cardinality(live[v]), SumSizes(live[v]))

\* C35: whenever the draft is VALID or INVALID and no request and no
\* aggregation of it is in flight or queued, its assets summary is the
\* summary of its live assets: the version does not leave PENDING, and so
\* the reach of the sweep, with a stale summary, also not when the
\* aggregation has used up its retries.
C35_SettledVersionHasCurrentSummary ==
    (/\ versions[Draft].status \in {"Valid", "Invalid"}
     /\ \A c \in Clients : Completed(c)
     /\ ~AggPending(Draft))
    => SummaryCurrent(Draft)

\* The messages on the queue that name version v.
MessagesFor(v) == {i \in 1..Len(queue) : queue[i].arg = VersionId(v)}

\* C36: the version sweep dispatches for exactly the versions that are draft
\* and PENDING when it enumerates them: the enumeration selects these
\* versions and no other; every message put on the queue belongs to a
\* selected version, and the sweep puts its validation, then its
\* aggregation, then its manifest writing, one message each, and is then
\* done with the version; a sweep can start whenever the draft is PENDING
\* and the queue has room; no message ever names the published version,
\* PENDING or not.
C36_SweepDispatchesPendingDrafts ==
    [][ /\ (vsweep.pc = "iterate" /\ vsweep' # vsweep)
           => /\ vsweep'.todo =
                   {v \in Versions : v = Draft /\ versions[v].status = "Pending"}
              /\ vsweep'.pc = IF vsweep'.todo = {} THEN "idle" ELSE "validate"
              /\ queue' = queue
        /\ Len(queue') > Len(queue)
           => \E v \in vsweep.todo :
                \/ /\ vsweep.pc = "validate"
                   /\ queue' = Append(queue, Message("validate_version_metadata",
                                                      VersionId(v)))
                   /\ vsweep' = [vsweep EXCEPT !.pc = "aggregate"]
                \/ /\ vsweep.pc = "aggregate"
                   /\ queue' = Append(queue, Message("aggregate_assets_summary",
                                                      VersionId(v)))
                   /\ vsweep' = [vsweep EXCEPT !.pc = "manifest"]
                \/ /\ vsweep.pc = "manifest"
                   /\ queue' = Append(queue, Message("write_manifest_files",
                                                      VersionId(v)))
                   /\ vsweep'.todo = vsweep.todo \ {v}
        /\ (/\ vsweep.pc = "idle" /\ versions[Draft].status = "Pending"
            /\ Len(queue) + 3 <= MaxVersionQueue)
           => ENABLED VersionSweepCount
        /\ vsweep'.todo \subseteq {Draft}
        /\ \A i \in 1..Len(queue') : queue'[i].arg # VersionId(Published)
      ]_vars

\* The sweep has dispatched the three tasks of the PENDING draft after a
\* request changed it, while the published version is PENDING too; the
\* earlier messages have been consumed.
C36_Witness ==
    /\ versions[Published].status = "Pending"
    /\ versions[Draft].status = "Pending"
    /\ versions[Draft].modified > 0
    /\ queue = << Message("validate_version_metadata", VersionId(Draft)),
                  Message("aggregate_assets_summary", VersionId(Draft)),
                  Message("write_manifest_files", VersionId(Draft)) >>
    /\ MessagesFor(Published) = {}
    /\ vsweep = NoVersionSweep

(***************************************************************************)
(* The no-change branch of update.                                         *)
(***************************************************************************)
\* C37: an update whose request describes exactly the addressed asset takes
\* the no-change branch and modifies only the version: the comparison stores
\* nothing and keeps the old asset as the result, the save sets the version
\* PENDING and advances its modified marker, and the inline validation of
\* the unchanged asset rewrites at most its status and errors (it runs when
\* the checksum of its blob is there); Asset rows, live set and path index
\* stay as they were and the answer is 200.
C37_NoChangeUpdateTouchesOnlyVersion ==
    [][ /\ (pc[1] = "u_check" /\ loc[1].ver = Draft /\ SameAsOld(1))
           => /\ pc'[1] = "u_vsave"
              /\ loc'[1].id = loc[1].old
              /\ UNCHANGED dbVars
        /\ (pc[1] = "u_vsave" /\ loc[1].id = loc[1].old)
           => /\ versions'[Draft].status = "Pending"
              /\ versions'[Draft].modified = versions[Draft].modified + 1
              /\ UNCHANGED <<assets, live, pathIndex>>
        /\ (pc[1] = "u_validate" /\ loc[1].id = loc[1].old)
           => /\ resp'[1] = 200
              /\ UNCHANGED <<live, pathIndex, versions>>
              /\ Len(assets') = Len(assets)
              /\ \A id \in AssetIds :
                   Persisted(assets'[id]) = Persisted(assets[id])
              /\ (~is_zarr(assets[loc[1].old]) /\ DigestReady(assets[loc[1].old]))
                 => assets'[loc[1].old].status \in {"Valid", "Invalid"}
      ]_vars

============================================================================
